---------------------------- MODULE Spec2Model ----------------------------
(***************************************************************************)
(* A model of PyKMN's Generation I battle buffer codec                     *)
(* (src/pykmn/engine/gen1.py) and of its battle driver (src/run_battle.py).*)
(*                                                                         *)
(* The battle is one flat byte buffer (Battle._pkmn_battle.bytes).  Every  *)
(* accessor of the Battle class is an operator over that buffer; every     *)
(* setter returns the buffer it leaves behind together with whether the    *)
(* call raised.  The layout tables and the bit-packing primitives live in  *)
(* pykmn.data.gen1 and pykmn.engine.common, which gen1.py only imports:    *)
(* they are written here as the specification of those modules gives them. *)
(***************************************************************************)
EXTENDS Integers, Sequences, FiniteSets, TLC

VARIABLES
    bytes,   \* Battle._pkmn_battle.bytes: offset -> 0..255
    prev,    \* the buffer as it was when the last call was made
    last,    \* the last call: its name, its arguments, whether it raised
    steps,   \* number of calls made on the Battle since construction
    teams,   \* the two rosters the Battle was constructed from
    sc,      \* the last statcalc call: its arguments and its result
    args,    \* the other arguments the Battle was constructed with
    proto    \* the turn protocol: the caller's position, the engine's answers

vars == <<bytes, prev, last, steps, teams, sc, args, proto>>

\* Number of setter calls explored after the initial states.
MaxSteps == 1

---------------------------------------------------------------------------
(* Layout: pykmn.data.gen1.LAYOUT_OFFSETS / LAYOUT_SIZES                   *)

P1 == 0
P2 == 1
Players == {P1, P2}
Slots == 1..6

\* byte offsets of the fields of each structure; for Volatiles, bit offsets of
\* the 1-bit flags and of the multi-bit fields
LAYOUT_OFFSETS ==
    [Battle |-> [sides |-> 0, turn |-> 368, last_damage |-> 370,
                 last_selected_indexes |-> 372, rng |-> 376],
     Side |-> [pokemon |-> 0, active |-> 144, order |-> 176,
               last_selected_move |-> 182, last_used_move |-> 183],
     Pokemon |-> [stats |-> 0, moves |-> 10, hp |-> 18, status |-> 20,
                  species |-> 21, types |-> 22, level |-> 23],
     ActivePokemon |-> [stats |-> 0, species |-> 10, types |-> 11, boosts |-> 12,
                        volatiles |-> 16, moves |-> 24],
     Volatiles |-> [Bide |-> 0, Thrashing |-> 1, MultiHit |-> 2, Flinch |-> 3,
                    Charging |-> 4, Binding |-> 5, Invulnerable |-> 6,
                    Confusion |-> 7, Mist |-> 8, FocusEnergy |-> 9,
                    Substitute |-> 10, Recharging |-> 11, Rage |-> 12,
                    LeechSeed |-> 13, Toxic |-> 14, LightScreen |-> 15,
                    Reflect |-> 16, Transform |-> 17,
                    confusion |-> 18, attacks |-> 21, state |-> 24,
                    substitute |-> 40, transform |-> 48, disabled_duration |-> 52,
                    disabled_move |-> 56, toxic |-> 59]]

\* sizes of the structures, in bytes
LAYOUT_SIZES == [Battle |-> 384, Side |-> 184, Pokemon |-> 24, ActivePokemon |-> 32]

\* VolatileFlag: the 1-bit flags of the volatiles region, by bit offset
VolatileFlag ==
    [f \in {"Bide", "Thrashing", "MultiHit", "Flinch", "Charging", "Binding",
            "Invulnerable", "Confusion", "Mist", "FocusEnergy", "Substitute",
            "Recharging", "Rage", "LeechSeed", "Toxic", "LightScreen", "Reflect",
            "Transform"} |-> LAYOUT_OFFSETS.Volatiles[f]]

Flags == {VolatileFlag[n] : n \in DOMAIN VolatileFlag}

StatNames == <<"hp", "atk", "def", "spe", "spc">>
BoostNames == {"atk", "def", "spe", "spc", "accuracy", "evasion"}

---------------------------------------------------------------------------
(* Bit-packing primitives: pykmn.engine.common                             *)

Pow2(n) == 2 ^ n

\* a call's outcome: the buffer it leaves and whether it raised
Ok(b) == [b |-> b, raised |-> FALSE]
Raise(b) == [b |-> b, raised |-> TRUE]

pack_u16_as_bytes(n) == <<n % 256, (n \div 256) % 256>>
unpack_u16_from_bytes(a, b) == b * 256 + a

pack_two_u4s(a, b) == (a % 16) + 16 * (b % 16)
unpack_two_u4s(n) == <<n % 16, (n \div 16) % 16>>

\* two's complement nibbles
pack_two_i4s(a, b) == pack_two_u4s(a % 16, b % 16)
I4(u) == IF u >= 8 THEN u - 16 ELSE u
unpack_two_i4s(n) == <<I4(n % 16), I4((n \div 16) % 16)>>

extract_unsigned_int_at_offset(byte, offset, length) ==
    (byte \div Pow2(offset)) % Pow2(length)

\* the precondition of insert_unsigned_int_at_offset: the call fails otherwise
insert_fails(n, length) == n >= Pow2(length)

insert_unsigned_int_at_offset(byte, n, offset, length) ==
    byte - extract_unsigned_int_at_offset(byte, offset, length) * Pow2(offset)
         + (n % Pow2(length)) * Pow2(offset)

\* bytes[offset:(offset + 2)] = pair
Write2(b, offset, pair) ==
    [b EXCEPT ![offset] = pair[1], ![offset + 1] = pair[2]]


---------------------------------------------------------------------------
(* Battle accessors over the buffer b                                      *)

ActiveOffset(player) ==
    LAYOUT_OFFSETS.Battle.sides + LAYOUT_SIZES.Side * player + LAYOUT_OFFSETS.Side.active
VolatilesOffset(player) == ActiveOffset(player) + LAYOUT_OFFSETS.ActivePokemon.volatiles
\* with roster slots counted from 0
PokemonOffset_zerobased(player, pokemon) ==
    LAYOUT_OFFSETS.Battle.sides + LAYOUT_SIZES.Side * player
        + LAYOUT_OFFSETS.Side.pokemon + LAYOUT_SIZES.Pokemon * pokemon

PokemonOffset(player, pokemon) ==
    LAYOUT_OFFSETS.Battle.sides + LAYOUT_SIZES.Side * player
        + LAYOUT_OFFSETS.Side.pokemon + LAYOUT_SIZES.Pokemon * (pokemon - 1)

boosts(b, player) ==
    LET offset == ActiveOffset(player) + LAYOUT_OFFSETS.ActivePokemon.boosts
        ad == unpack_two_i4s(b[offset])
        ss == unpack_two_i4s(b[offset + 1])
        ae == unpack_two_i4s(b[offset + 2])
    IN  [atk |-> ad[1], def |-> ad[2], spe |-> ss[1], spc |-> ss[2],
         accuracy |-> ae[1], evasion |-> ae[2]]

\* a blind overwrite: keys that are not named are written as 0
set_boosts_blind(b, player, new_boosts) ==
    LET offset == ActiveOffset(player) + LAYOUT_OFFSETS.ActivePokemon.boosts
        v(k) == IF k \in DOMAIN new_boosts THEN new_boosts[k] ELSE 0
    IN  Ok([b EXCEPT
            ![offset] = pack_two_i4s(v("atk"), v("def")),
            ![offset + 1] = pack_two_i4s(v("spe"), v("spc")),
            ![offset + 2] = pack_two_i4s(v("accuracy"), v("evasion"))])

\* new_boosts is a function from a subset of BoostNames to integers
set_boosts(b, player, new_boosts) ==
    LET offset == ActiveOffset(player) + LAYOUT_OFFSETS.ActivePokemon.boosts
        old_boosts == boosts(b, player)
        v(k) == IF k \in DOMAIN new_boosts THEN new_boosts[k] ELSE old_boosts[k]
    IN  Ok([b EXCEPT
            ![offset] = pack_two_i4s(v("atk"), v("def")),
            ![offset + 1] = pack_two_i4s(v("spe"), v("spc")),
            ![offset + 2] = pack_two_i4s(v("accuracy"), v("evasion"))])

\* ffi.cast("uint32_t *", bytes[offset:(offset + 4)])[0]: the word is kept as
\* its four bytes in memory order (little-endian: bit n of the word is bit
\* n % 8 of byte n \div 8), so that no value leaves the 32-bit range
ReadU32(b, offset) == [i \in 0..3 |-> b[offset + i]]

WriteU32(b, offset, w) ==
    [b EXCEPT ![offset] = w[0], ![offset + 1] = w[1],
              ![offset + 2] = w[2], ![offset + 3] = w[3]]

Bit(byte, n) == (byte \div Pow2(n)) % 2

\* w & (1 << n) != 0
WordBit(w, n) == Bit(w[n \div 8], n % 8) = 1

\* w | (1 << n)
WordOr(w, n) ==
    IF WordBit(w, n) THEN w ELSE [w EXCEPT ![n \div 8] = @ + Pow2(n % 8)]

\* w & ~(1 << n)
WordAndNot(w, n) ==
    IF WordBit(w, n) THEN [w EXCEPT ![n \div 8] = @ - Pow2(n % 8)] ELSE w

\* w ^ (1 << n)
WordXor(w, n) == IF WordBit(w, n) THEN WordAndNot(w, n) ELSE WordOr(w, n)

volatile(b, player, flag) == WordBit(ReadU32(b, VolatilesOffset(player)), flag)

\* clearing by toggling: clearing a flag that is not set sets it
set_volatile_toggle(b, player, flag, value) ==
    LET offset == VolatilesOffset(player)
        w == ReadU32(b, offset)
    IN  IF value
        THEN Ok(WriteU32(b, offset, WordOr(w, flag)))
        ELSE Ok(WriteU32(b, offset, WordXor(w, flag)))

set_volatile(b, player, flag, value) ==
    LET offset == VolatilesOffset(player)
        w == ReadU32(b, offset)
    IN  IF value
        THEN Ok(WriteU32(b, offset, WordOr(w, flag)))
        ELSE Ok(WriteU32(b, offset, WordAndNot(w, flag)))

\* read a bit field of the volatiles region
VolField(b, player, bit_offset, length) ==
    extract_unsigned_int_at_offset(
        b[VolatilesOffset(player) + (bit_offset \div 8)], bit_offset % 8, length)

\* write a bit field of the volatiles region through insert_unsigned_int_at_offset
SetVolField(b, player, bit_offset, length, n) ==
    LET byte_offset == VolatilesOffset(player) + (bit_offset \div 8)
    IN  IF insert_fails(n, length)
        THEN Raise(b)
        ELSE Ok([b EXCEPT ![byte_offset] =
                    insert_unsigned_int_at_offset(b[byte_offset], n, bit_offset % 8, length)])

confusion_turns_left(b, player) == VolField(b, player, LAYOUT_OFFSETS.Volatiles.confusion, 3)

\* without the lower bound of the assertion
set_confusion_turns_left_nolower(b, player, new_turns_left) ==
    IF ~(new_turns_left <= Pow2(3))
    THEN Raise(b)
    ELSE SetVolField(b, player, LAYOUT_OFFSETS.Volatiles.confusion, 3, new_turns_left)

set_confusion_turns_left(b, player, new_turns_left) ==
    IF ~(new_turns_left <= Pow2(3) /\ new_turns_left >= 0)
    THEN Raise(b)
    ELSE SetVolField(b, player, LAYOUT_OFFSETS.Volatiles.confusion, 3, new_turns_left)

attacks_left(b, player) == VolField(b, player, LAYOUT_OFFSETS.Volatiles.attacks, 3)

set_attacks_left(b, player, new_attacks_left) ==
    IF ~(new_attacks_left <= Pow2(3) /\ new_attacks_left >= 0)
    THEN Raise(b)
    ELSE SetVolField(b, player, LAYOUT_OFFSETS.Volatiles.attacks, 3, new_attacks_left)

volatile_state(b, player) ==
    LET offset == VolatilesOffset(player) + (LAYOUT_OFFSETS.Volatiles.state \div 8)
    IN  unpack_u16_from_bytes(b[offset], b[offset + 1])

set_volatile_state(b, player, new_state) ==
    Ok(Write2(b, VolatilesOffset(player) + (LAYOUT_OFFSETS.Volatiles.state \div 8),
              pack_u16_as_bytes(new_state)))

substitute_hp(b, player) == b[VolatilesOffset(player) + (LAYOUT_OFFSETS.Volatiles.substitute \div 8)]

set_substitute_hp(b, player, new_hp) ==
    Ok([b EXCEPT ![VolatilesOffset(player) + (LAYOUT_OFFSETS.Volatiles.substitute \div 8)] = new_hp])

\* <<player, slot>> of the transform target
transformed_into(b, player) ==
    LET transform_u4 == VolField(b, player, LAYOUT_OFFSETS.Volatiles.transform, 4)
    IN  <<IF transform_u4 \div 8 = 0 THEN P1 ELSE P2, transform_u4 % 4>>

\* the packed target written over the whole byte
set_transformed_into_raw(b, player, new_transformed_into) ==
    Ok([b EXCEPT ![VolatilesOffset(player) + (LAYOUT_OFFSETS.Volatiles.transform \div 8)] =
            new_transformed_into[1] * 8 + new_transformed_into[2]])

set_transformed_into(b, player, new_transformed_into) ==
    SetVolField(b, player, LAYOUT_OFFSETS.Volatiles.transform, 4,
                new_transformed_into[1] * 8 + new_transformed_into[2])

\* with a 4-bit read of the move slot
disable_data_u4(b, player) ==
    [move_slot |-> VolField(b, player, LAYOUT_OFFSETS.Volatiles.disabled_move, 4),
     turns_left |-> VolField(b, player, LAYOUT_OFFSETS.Volatiles.disabled_duration, 4)]

disable_data(b, player) ==
    [move_slot |-> VolField(b, player, LAYOUT_OFFSETS.Volatiles.disabled_move, 3),
     turns_left |-> VolField(b, player, LAYOUT_OFFSETS.Volatiles.disabled_duration, 4)]

\* the duration is written first; the move slot is written to the buffer the
\* first write left, so a failure of the second write keeps the first
set_disable_data(b, player, new_disable_data) ==
    LET first == SetVolField(b, player, LAYOUT_OFFSETS.Volatiles.disabled_duration, 4,
                             new_disable_data.turns_left)
    IN  IF first.raised
        THEN first
        ELSE SetVolField(first.b, player, LAYOUT_OFFSETS.Volatiles.disabled_move, 3,
                         new_disable_data.move_slot)

\* a 4-bit read of the 5-bit counter
toxic_severity_u4(b, player) == VolField(b, player, LAYOUT_OFFSETS.Volatiles.toxic, 4)

toxic_severity(b, player) == VolField(b, player, LAYOUT_OFFSETS.Volatiles.toxic, 5)

set_toxic_severity(b, player, new_toxic_counter) ==
    SetVolField(b, player, LAYOUT_OFFSETS.Volatiles.toxic, 5, new_toxic_counter)

turn(b) == unpack_u16_from_bytes(b[LAYOUT_OFFSETS.Battle.turn], b[LAYOUT_OFFSETS.Battle.turn + 1])
set_turn(b, new_turn) == Ok(Write2(b, LAYOUT_OFFSETS.Battle.turn, pack_u16_as_bytes(new_turn)))

last_damage(b) ==
    unpack_u16_from_bytes(b[LAYOUT_OFFSETS.Battle.last_damage],
                          b[LAYOUT_OFFSETS.Battle.last_damage + 1])
set_last_damage(b, new_last_damage) ==
    Ok(Write2(b, LAYOUT_OFFSETS.Battle.last_damage, pack_u16_as_bytes(new_last_damage)))

last_used_move_index(b, player) ==
    LET offset == LAYOUT_OFFSETS.Battle.last_selected_indexes + player
    IN  unpack_u16_from_bytes(b[offset], b[offset + 1])

current_hp(b, player, pokemon) ==
    LET offset == PokemonOffset(player, pokemon) + LAYOUT_OFFSETS.Pokemon.hp
    IN  unpack_u16_from_bytes(b[offset], b[offset + 1])

set_current_hp(b, player, pokemon, new_hp) ==
    Ok(Write2(b, PokemonOffset(player, pokemon) + LAYOUT_OFFSETS.Pokemon.hp,
              pack_u16_as_bytes(new_hp)))

\* the raw status byte (Status._value)
status(b, player, pokemon) == b[PokemonOffset(player, pokemon) + LAYOUT_OFFSETS.Pokemon.status]

set_status(b, player, pokemon, new_status) ==
    Ok([b EXCEPT ![PokemonOffset(player, pokemon) + LAYOUT_OFFSETS.Pokemon.status] = new_status])

level(b, player, pokemon) == b[PokemonOffset(player, pokemon) + LAYOUT_OFFSETS.Pokemon.level]

set_level(b, player, pokemon, new_level) ==
    Ok([b EXCEPT ![PokemonOffset(player, pokemon) + LAYOUT_OFFSETS.Pokemon.level] = new_level])

---------------------------------------------------------------------------
(* statcalc                                                                *)

Min(a, b) == IF a <= b THEN a ELSE b

\* math.ceil(math.sqrt(n)) for 0 <= n <= 65536
CeilSqrt(n) == CHOOSE k \in 0..256 : k * k >= n /\ (k = 0 \/ (k - 1) * (k - 1) < n)

\* without the saturation of the EV term at 255
statcalc_nocap(base_value, is_HP, level_, dv, experience) ==
    LET evs == CeilSqrt(experience)
        core == (2 * (base_value + dv)) + (evs \div 4)
        factor == IF is_HP THEN level_ + 10 ELSE 5
    IN  (((core * level_) \div 100) + factor) % Pow2(16)

\* without the wrap to 16 bits
statcalc_nowrap(base_value, is_HP, level_, dv, experience) ==
    LET evs == Min(255, CeilSqrt(experience))
        core == (2 * (base_value + dv)) + (evs \div 4)
        factor == IF is_HP THEN level_ + 10 ELSE 5
    IN  ((core * level_) \div 100) + factor

statcalc(base_value, is_HP, level_, dv, experience) ==
    LET evs == Min(255, CeilSqrt(experience))
        core == (2 * (base_value + dv)) + (evs \div 4)
        factor == IF is_HP THEN level_ + 10 ELSE 5
    IN  (((core * level_) \div 100) + factor) % Pow2(16)

---------------------------------------------------------------------------
(* Data tables: pykmn.data.gen1 (a sample of the species and moves)        *)

TYPES == <<"Normal", "Fighting", "Flying", "Poison", "Ground", "Rock", "Bug",
           "Ghost", "Fire", "Water", "Grass", "Electric", "Psychic", "Ice", "Dragon">>

\* the position of name in TYPES, counted from 1
TypeIndex_onebased(name) == CHOOSE i \in 1..Len(TYPES) : TYPES[i] = name

\* TYPES.index(name)
TypeIndex(name) == (CHOOSE i \in 1..Len(TYPES) : TYPES[i] = name) - 1

SpeciesNames == {"Chansey", "Starmie", "Magikarp", "Mew"}

SPECIES ==
    [Chansey |-> [stats |-> [hp |-> 250, atk |-> 5, def |-> 5, spe |-> 50, spc |-> 105],
                  types |-> <<"Normal">>],
     Starmie |-> [stats |-> [hp |-> 60, atk |-> 75, def |-> 85, spe |-> 115, spc |-> 100],
                  types |-> <<"Water", "Psychic">>],
     Magikarp |-> [stats |-> [hp |-> 20, atk |-> 10, def |-> 55, spe |-> 80, spc |-> 20],
                   types |-> <<"Water">>],
     Mew |-> [stats |-> [hp |-> 100, atk |-> 100, def |-> 100, spe |-> 100, spc |-> 100],
              types |-> <<"Psychic">>]]

SPECIES_IDS == [None |-> 0, Chansey |-> 113, Starmie |-> 121, Magikarp |-> 129, Mew |-> 151]

MoveNames == {"None", "Tackle", "Growl", "Psychic", "Recover", "Explosion"}

MOVE_IDS ==
    [None |-> 0, Tackle |-> 33, Growl |-> 45, Psychic |-> 94, Recover |-> 105,
     Explosion |-> 153]

\* base PP of each move
MOVES == [Tackle |-> 35, Growl |-> 40, Psychic |-> 10, Recover |-> 20, Explosion |-> 5]

---------------------------------------------------------------------------
(* Battle.__init__ and Battle._initialize_pokemon                          *)

ExtraKeys == {"hp", "status", "level", "stats", "types", "move_pp", "dvs", "exp"}

ZeroStats == [hp |-> 0, atk |-> 0, def |-> 0, spe |-> 0, spc |-> 0]
DefaultDVs == [hp |-> 15, atk |-> 15, def |-> 15, spe |-> 15, spc |-> 15]
DefaultExp == [hp |-> 65535, atk |-> 65535, def |-> 65535, spe |-> 65535, spc |-> 65535]

\* an ExtraPokemonData dictionary: keys is the set of keys it holds, and the
\* other fields are the values of those keys (unread when the key is absent)
NoExtra ==
    [keys |-> {}, hp |-> 0, status |-> 0, level |-> 0, stats |-> ZeroStats,
     types |-> <<"Normal", "Normal">>, move_pp |-> <<0, 0, 0, 0>>,
     dvs |-> ZeroStats, exp |-> ZeroStats]

\* a PokemonData tuple; the two-element form has extra = NoExtra
Pokemon(species_name, move_names, extra_data) ==
    [species |-> species_name, moves |-> move_names, extra |-> extra_data]

\* the default PP without the cap
DefaultPP_nocap(move_name) == (MOVES[move_name] * 8) \div 5

\* min(math.floor(MOVES[name] * 8 / 5), 61)
DefaultPP(move_name) == Min((MOVES[move_name] * 8) \div 5, 61)

\* the <<move id, pp>> packed for move slot move_index (0-based)
PackedMove(move_names, move_pp, has_move_pp, move_index) ==
    IF move_index >= Len(move_names)
    THEN <<0, 0>>
    ELSE LET move_id == MOVE_IDS[move_names[move_index + 1]]
         IN  IF ~has_move_pp
             THEN IF move_id = 0
                  THEN <<move_id, 0>>
                  ELSE <<move_id, DefaultPP(move_names[move_index + 1])>>
             ELSE <<move_id, move_pp[move_index + 1]>>

\* the stats computed for the species whatever extra_data holds
ResolvedStats_nooverride(pokemon_data) ==
    IF pokemon_data.species = "None" THEN ZeroStats
    ELSE [stat \in DOMAIN ZeroStats |->
             statcalc(SPECIES[pokemon_data.species].stats[stat], stat = "hp",
                      100, 15, 65535)]

\* the values _initialize_pokemon resolves before packing
ResolvedStats(pokemon_data) ==
    LET x == pokemon_data.extra
        level_ == IF "level" \in x.keys THEN x.level ELSE 100
        dvs == IF "dvs" \in x.keys THEN x.dvs ELSE DefaultDVs
        exp == IF "exp" \in x.keys THEN x.exp ELSE DefaultExp
    IN  IF "stats" \in x.keys THEN x.stats
        ELSE IF pokemon_data.species = "None" THEN ZeroStats
        ELSE [stat \in DOMAIN ZeroStats |->
                 statcalc(SPECIES[pokemon_data.species].stats[stat], stat = "hp",
                          level_, dvs[stat], exp[stat])]

ResolvedTypes(pokemon_data) ==
    LET x == pokemon_data.extra
    IN  IF "types" \in x.keys THEN x.types
        ELSE IF pokemon_data.species = "None" THEN <<"Normal", "Normal">>
        ELSE LET t == SPECIES[pokemon_data.species].types
             IN  <<t[1], IF Len(t) > 1 THEN t[2] ELSE t[1]>>

\* every write of the call is one update of b: the five stats, the four move
\* slots (up to the first move name that is not a key of MOVE_IDS, where the
\* call raises), then hp, status, species, types and level
_initialize_pokemon(b, battle_offset, pokemon_data) ==
    LET x == pokemon_data.extra
        species_name == pokemon_data.species
        move_names == pokemon_data.moves
        status_ == IF "status" \in x.keys THEN x.status ELSE 0
        level_ == IF "level" \in x.keys THEN x.level ELSE 100
    IN  IF species_name /= "None" /\ species_name \notin SpeciesNames
        THEN Raise(b)
        ELSE
        LET stats == ResolvedStats(pokemon_data)
            types == ResolvedTypes(pokemon_data)
            hp == IF "hp" \in x.keys THEN x.hp ELSE stats.hp
            o == battle_offset + LAYOUT_OFFSETS.Pokemon.stats
            stat(k) == pack_u16_as_bytes(stats[StatNames[k]])
            \* the first move slot whose name is not a key of MOVE_IDS
            bad == {m \in 0..3 : m < Len(move_names) /\ move_names[m + 1] \notin MoveNames}
            stop == IF bad = {} THEN 4 ELSE CHOOSE m \in bad : \A n \in bad : m <= n
            move(n) == PackedMove(move_names, x.move_pp, "move_pp" \in x.keys, n)
            mo == o + 10
            packed ==
                [b EXCEPT
                    ![o] = stat(1)[1], ![o + 1] = stat(1)[2],
                    ![o + 2] = stat(2)[1], ![o + 3] = stat(2)[2],
                    ![o + 4] = stat(3)[1], ![o + 5] = stat(3)[2],
                    ![o + 6] = stat(4)[1], ![o + 7] = stat(4)[2],
                    ![o + 8] = stat(5)[1], ![o + 9] = stat(5)[2],
                    ![mo] = IF 0 < stop THEN move(0)[1] ELSE @,
                    ![mo + 1] = IF 0 < stop THEN move(0)[2] ELSE @,
                    ![mo + 2] = IF 1 < stop THEN move(1)[1] ELSE @,
                    ![mo + 3] = IF 1 < stop THEN move(1)[2] ELSE @,
                    ![mo + 4] = IF 2 < stop THEN move(2)[1] ELSE @,
                    ![mo + 5] = IF 2 < stop THEN move(2)[2] ELSE @,
                    ![mo + 6] = IF 3 < stop THEN move(3)[1] ELSE @,
                    ![mo + 7] = IF 3 < stop THEN move(3)[2] ELSE @]
        IN  IF bad /= {}
            THEN Raise(packed)
            ELSE Ok([packed EXCEPT
                        ![o + 18] = pack_u16_as_bytes(hp)[1],
                        ![o + 19] = pack_u16_as_bytes(hp)[2],
                        ![o + 20] = status_,
                        ![o + 21] = SPECIES_IDS[species_name],
                        ![o + 22] =
                            pack_two_u4s(TypeIndex(types[1]), TypeIndex(types[2])),
                        ![o + 23] = level_])

\* ffi.new("pkmn_gen1_battle *"): a zeroed buffer
ZeroBuffer == [i \in 0..(LAYOUT_SIZES.Battle - 1) |-> 0]

\* the one element of a set
Only(S) == CHOOSE e \in S : TRUE

\* the loop over the team, leaving after its first member
InitTeam_first(b, side_start, team, i) ==
    _initialize_pokemon(b, side_start + LAYOUT_OFFSETS.Side.pokemon, team[1])

\* for (i, pkmn) in enumerate(team): self._initialize_pokemon(...), from member
\* i on; r is the outcome of the call for member i
RECURSIVE InitTeam(_, _, _, _)
InitTeam(b, side_start, team, i) ==
    IF i >= Len(team)
    THEN Ok(b)
    ELSE Only({IF r.raised THEN r ELSE InitTeam(r.b, side_start, team, i + 1) :
                  r \in {_initialize_pokemon(
                            b,
                            side_start + LAYOUT_OFFSETS.Side.pokemon
                                + (i * LAYOUT_SIZES.Pokemon),
                            team[i + 1])}})

\* the order byte of roster position i (0-based), but 0-based itself
OrderByte_zero(i) == i

\* the order byte of roster position i (0-based)
OrderByte(i) == i + 1

\* one iteration of the loop over the two sides; r is the outcome of the loop
\* over the team
InitSide(b, side_start, last_selected_move_, last_used_move_, team) ==
    IF last_selected_move_ \notin MoveNames
    THEN Raise(b)
    ELSE LET b1 == [b EXCEPT ![side_start + LAYOUT_OFFSETS.Side.last_selected_move] =
                                 MOVE_IDS[last_selected_move_]]
         IN  IF last_used_move_ \notin MoveNames
             THEN Raise(b1)
             ELSE LET b2 == [b1 EXCEPT ![side_start + LAYOUT_OFFSETS.Side.last_used_move] =
                                           MOVE_IDS[last_used_move_]]
                  IN  Only({IF r.raised
                            THEN r
                            ELSE Ok([i \in DOMAIN r.b |->
                                       IF i >= side_start + LAYOUT_OFFSETS.Side.order
                                          /\ i < side_start + LAYOUT_OFFSETS.Side.order + Len(team)
                                       THEN OrderByte(i - (side_start + LAYOUT_OFFSETS.Side.order))
                                       ELSE r.b[i]]) :
                               r \in {InitTeam(b2, side_start, team, 0)}})

\* an rng_seed argument: None, an integer (given as the eight bytes
\* ShowdownRNG._initialize stores in the RNG region) or a list of byte values.
\* random is what the calls of random.randrange return when the seed is None
Seed(kind, value) == [kind |-> kind, value |-> value, random |-> value]
NoSeed(random) == [kind |-> "None", value |-> <<>>, random |-> random]

\* the arguments of Battle.__init__ left at their defaults, but for the seed;
\* libpkmn is the value of IS_SHOWDOWN_COMPATIBLE of the binding
DefaultArgs ==
    [p1_last_selected_move |-> "None", p1_last_used_move |-> "None",
     p2_last_selected_move |-> "None", p2_last_used_move |-> "None",
     start_turn |-> 0, last_damage |-> 0, p1_move_idx |-> 0, p2_move_idx |-> 0,
     rng_seed |-> Seed("int", <<1, 2, 3, 4, 5, 6, 7, 8>>),
     libpkmn |-> 1]

\* b with the first n values of seed written from offset on
WriteSeed(b, offset, seed, n) ==
    [i \in DOMAIN b |->
        IF i >= offset /\ i < offset + n /\ i - offset < Len(seed)
        THEN seed[i - offset + 1]
        ELSE b[i]]

\* the offsets of the buffer that the seeding of a build without Showdown
\* compatibility assigns to: one per iteration of its loop, over range(10)
\* when the seed is None and over the seed list otherwise
SeedOffsets(args_) ==
    LET offset == LAYOUT_OFFSETS.Battle.turn + 5
        seed == args_.rng_seed
    IN  IF seed.kind = "None"
        THEN {offset + i : i \in 0..9}
        ELSE {offset + (i - 1) : i \in 1..Len(seed.value)}

\* Battle.__init__ accepting every rng_seed
InitBattleFields_anyseed(b, args_) ==
    LET offset == LAYOUT_OFFSETS.Battle.turn
        seed == args_.rng_seed
        b3 == Write2(b, offset, pack_u16_as_bytes(args_.start_turn))
        b4 == Write2(b3, offset + 2, pack_u16_as_bytes(args_.last_damage))
        b5 == Write2(b4, offset + 4, pack_u16_as_bytes(args_.p1_move_idx))
        b6 == Write2(b5, offset + 6, pack_u16_as_bytes(args_.p2_move_idx))
        c5 == [b4 EXCEPT ![offset + 4] =
                             pack_two_u4s(args_.p1_move_idx, args_.p2_move_idx)]
    IN  Only({IF args_.libpkmn = 1
              THEN Ok(WriteSeed(w[1], offset + 8,
                                IF seed.kind = "None" THEN seed.random ELSE seed.value, 8))
              ELSE Ok(WriteSeed(w[2], offset + 5,
                                IF seed.kind = "None" THEN seed.random ELSE seed.value, 10)) :
                 w \in {<<b6, c5>>}})

\* the end of Battle.__init__, on the buffer b the two sides were written to:
\* turn, last damage, then by IS_SHOWDOWN_COMPATIBLE the two move indexes and
\* the seed
InitBattleFields(b, args_) ==
    LET offset == LAYOUT_OFFSETS.Battle.turn
        seed == args_.rng_seed
        b3 == Write2(b, offset, pack_u16_as_bytes(args_.start_turn))
        b4 == Write2(b3, offset + 2, pack_u16_as_bytes(args_.last_damage))
        b5 == Write2(b4, offset + 4, pack_u16_as_bytes(args_.p1_move_idx))
        b6 == Write2(b5, offset + 6, pack_u16_as_bytes(args_.p2_move_idx))
        c5 == [b4 EXCEPT ![offset + 4] =
                             pack_two_u4s(args_.p1_move_idx, args_.p2_move_idx)]
    IN  Only({IF args_.libpkmn = 1
              THEN IF seed.kind = "None" THEN Ok(WriteSeed(w[1], offset + 8, seed.random, 8))
                   ELSE IF seed.kind = "list" THEN Raise(w[1])
                   ELSE Ok(WriteSeed(w[1], offset + 8, seed.value, 8))
              ELSE IF seed.kind = "None" THEN Ok(WriteSeed(w[2], offset + 5, seed.random, 10))
                   ELSE IF seed.kind = "int" THEN Raise(w[2])
                   ELSE Ok(WriteSeed(w[2], offset + 5, seed.value, Len(seed.value))) :
                 w \in {<<b6, c5>>}})

\* Battle.__init__; r1 and r2 are the outcomes of the two iterations of the
\* loop over the sides
Battle_init(p1_team, p2_team, args_) ==
    LET p1_side_start == LAYOUT_OFFSETS.Battle.sides
        p2_side_start == LAYOUT_OFFSETS.Battle.sides + LAYOUT_SIZES.Side
    IN  Only({IF r1.raised
              THEN r1
              ELSE Only({IF r2.raised THEN r2 ELSE InitBattleFields(r2.b, args_) :
                            r2 \in {InitSide(r1.b, p2_side_start, args_.p2_last_selected_move,
                                             args_.p2_last_used_move, p2_team)}}) :
                 r1 \in {InitSide(ZeroBuffer, p1_side_start, args_.p1_last_selected_move,
                                  args_.p1_last_used_move, p1_team)}})

---------------------------------------------------------------------------
(* Moves                                                                   *)

\* the pokemon argument "Active"
Active == 0

MovesOffset(player, pokemon) ==
    IF pokemon = Active
    THEN ActiveOffset(player) + LAYOUT_OFFSETS.ActivePokemon.moves
    ELSE PokemonOffset(player, pokemon) + LAYOUT_OFFSETS.Pokemon.moves

\* the raw <<move id, pp>> of move slot n (0-based)
MoveSlot(b, player, pokemon, n) ==
    <<b[MovesOffset(player, pokemon) + 2 * n], b[MovesOffset(player, pokemon) + 2 * n + 1]>>

\* new_moves is a sequence of <<move name, pp>>
RECURSIVE SetMovesFrom(_, _, _, _)
SetMovesFrom(b, offset, new_moves, i) ==
    IF i >= Len(new_moves)
    THEN Ok(b)
    ELSE IF new_moves[i + 1][1] \notin MoveNames
         THEN Raise(b)
         ELSE SetMovesFrom(
                  [b EXCEPT ![offset + i * 2] = MOVE_IDS[new_moves[i + 1][1]],
                            ![offset + i * 2 + 1] = new_moves[i + 1][2]],
                  offset, new_moves, i + 1)

set_moves(b, player, pokemon, new_moves) ==
    SetMovesFrom(b, MovesOffset(player, pokemon), new_moves, 0)

---------------------------------------------------------------------------
(* Stats, species, types and last moves                                    *)

\* the five stats read from offset on, in the order of StatNames
StatsAt(b, offset) ==
    [stat \in {StatNames[k] : k \in 1..Len(StatNames)} |->
        LET k == CHOOSE n \in 1..Len(StatNames) : StatNames[n] = stat
        IN  unpack_u16_from_bytes(b[offset + 2 * (k - 1)], b[offset + 2 * (k - 1) + 1])]

\* the loop of the stat setters with an offset that advances only past the
\* stats it writes
RECURSIVE SetStatsFrom_packed(_, _, _, _)
SetStatsFrom_packed(b, offset, new_stats, k) ==
    IF k > Len(StatNames)
    THEN Ok(b)
    ELSE IF StatNames[k] \in DOMAIN new_stats
         THEN SetStatsFrom_packed(
                  Write2(b, offset, pack_u16_as_bytes(new_stats[StatNames[k]])),
                  offset + 2, new_stats, k + 1)
         ELSE SetStatsFrom_packed(b, offset, new_stats, k + 1)

\* the loop of the stat setters from the k-th stat on: a stat that new_stats
\* names is written at offset, and offset advances by 2 for every stat
RECURSIVE SetStatsFrom(_, _, _, _)
SetStatsFrom(b, offset, new_stats, k) ==
    IF k > Len(StatNames)
    THEN Ok(b)
    ELSE SetStatsFrom(
             IF StatNames[k] \in DOMAIN new_stats
             THEN Write2(b, offset, pack_u16_as_bytes(new_stats[StatNames[k]]))
             ELSE b,
             offset + 2, new_stats, k + 1)

active_pokemon_stats(b, player) ==
    StatsAt(b, ActiveOffset(player) + LAYOUT_OFFSETS.ActivePokemon.stats)

set_active_pokemon_stats(b, player, new_stats) ==
    SetStatsFrom(b, ActiveOffset(player) + LAYOUT_OFFSETS.ActivePokemon.stats, new_stats, 1)

stats(b, player, pokemon) ==
    StatsAt(b, PokemonOffset(player, pokemon) + LAYOUT_OFFSETS.Pokemon.stats)

set_stats(b, player, pokemon, new_stats) ==
    SetStatsFrom(b, PokemonOffset(player, pokemon) + LAYOUT_OFFSETS.Pokemon.stats,
                 new_stats, 1)

\* b with the id of a name written at offset; the lookup of a name that is
\* not a key of ids raises
SetId(b, offset, ids, name) ==
    IF name \notin DOMAIN ids THEN Raise(b) ELSE Ok([b EXCEPT ![offset] = ids[name]])

set_last_selected_move(b, player, move) ==
    SetId(b, LAYOUT_OFFSETS.Battle.sides + (LAYOUT_SIZES.Side * player)
             + LAYOUT_OFFSETS.Side.last_selected_move, MOVE_IDS, move)

set_last_used_move(b, player, move) ==
    SetId(b, LAYOUT_OFFSETS.Battle.sides + (LAYOUT_SIZES.Side * player)
             + LAYOUT_OFFSETS.Side.last_used_move, MOVE_IDS, move)

set_active_pokemon_species(b, player, new_species) ==
    SetId(b, ActiveOffset(player) + LAYOUT_OFFSETS.ActivePokemon.species,
          SPECIES_IDS, new_species)

set_species(b, player, pokemon, new_species) ==
    SetId(b, PokemonOffset(player, pokemon) + LAYOUT_OFFSETS.Pokemon.species,
          SPECIES_IDS, new_species)

\* b with the packed indexes of the types first and second written at offset;
\* TYPES.index raises for a name that is not in TYPES
SetTypes(b, offset, first, second) ==
    IF \E name \in {first, second} : \A i \in 1..Len(TYPES) : TYPES[i] /= name
    THEN Raise(b)
    ELSE Ok([b EXCEPT ![offset] = pack_two_u4s(TypeIndex(first), TypeIndex(second))])

\* new_types has one or two names
set_active_pokemon_types(b, player, new_types) ==
    SetTypes(b, ActiveOffset(player) + LAYOUT_OFFSETS.ActivePokemon.types,
             new_types[1], new_types[IF Len(new_types) = 2 THEN 2 ELSE 1])

\* new_types[1] of a tuple of one name raises
set_types(b, player, pokemon, new_types) ==
    IF Len(new_types) < 2
    THEN Raise(b)
    ELSE SetTypes(b, PokemonOffset(player, pokemon) + LAYOUT_OFFSETS.Pokemon.types,
                  new_types[1], new_types[2])

---------------------------------------------------------------------------
(* The Battles the setters are called on                                   *)

Team1 ==
    <<Pokemon("Starmie", <<"Psychic", "Recover", "Tackle", "Growl">>,
              [NoExtra EXCEPT !.keys = {"level"}, !.level = 1]),
      Pokemon("Chansey", <<"Growl", "Explosion">>, NoExtra)>>

Team2 ==
    <<Pokemon("Magikarp", <<"Tackle">>,
              [NoExtra EXCEPT !.keys = {"level"}, !.level = 100])>>

\* Battle(p1_team=Team1, p2_team=Team2)
Fresh == Battle_init(Team1, Team2, DefaultArgs).b

\* no call has been made yet
NoCall ==
    [op |-> "init", player |-> P1, pokemon |-> 0, n |-> 0, m |-> 0, on |-> FALSE,
     keys |-> {}, vals |-> [k \in BoostNames |-> 0], moves |-> <<>>, names |-> <<>>,
     raised |-> FALSE]

NoStatcalc ==
    [base_value |-> 0, is_HP |-> FALSE, level |-> 0, dv |-> 0, experience |-> 0,
     result |-> 0, done |-> FALSE]

\* no protocol call has been made on the Battle
NoProtocol == [pc |-> "none"]

\* the call op(player, n) and the call op(player, pokemon, n), as last records them
On(op, player, n) == [NoCall EXCEPT !.op = op, !.player = player, !.n = n]
OnSlot(op, player, pokemon, n) == [On(op, player, n) EXCEPT !.pokemon = pokemon]

\* the outcome on b of the call that c records
Apply(b, c) ==
    CASE c.op = "set_boosts" -> set_boosts(b, c.player, [k \in c.keys |-> c.vals[k]])
      [] c.op = "set_volatile" -> set_volatile(b, c.player, c.n, c.on)
      [] c.op = "set_confusion_turns_left" -> set_confusion_turns_left(b, c.player, c.n)
      [] c.op = "set_attacks_left" -> set_attacks_left(b, c.player, c.n)
      [] c.op = "set_volatile_state" -> set_volatile_state(b, c.player, c.n)
      [] c.op = "set_substitute_hp" -> set_substitute_hp(b, c.player, c.n)
      [] c.op = "set_transformed_into" -> set_transformed_into(b, c.player, <<c.n, c.m>>)
      [] c.op = "set_disable_data" ->
             set_disable_data(b, c.player, [move_slot |-> c.n, turns_left |-> c.m])
      [] c.op = "set_toxic_severity" -> set_toxic_severity(b, c.player, c.n)
      [] c.op = "set_current_hp" -> set_current_hp(b, c.player, c.pokemon, c.n)
      [] c.op = "set_status" -> set_status(b, c.player, c.pokemon, c.n)
      [] c.op = "set_level" -> set_level(b, c.player, c.pokemon, c.n)
      [] c.op = "set_turn" -> set_turn(b, c.n)
      [] c.op = "set_last_damage" -> set_last_damage(b, c.n)
      [] c.op = "set_active_pokemon_stats" ->
             set_active_pokemon_stats(b, c.player, [k \in c.keys |-> c.vals[k]])
      [] c.op = "set_stats" ->
             set_stats(b, c.player, c.pokemon, [k \in c.keys |-> c.vals[k]])
      [] c.op = "set_last_selected_move" -> set_last_selected_move(b, c.player, c.names[1])
      [] c.op = "set_last_used_move" -> set_last_used_move(b, c.player, c.names[1])
      [] c.op = "set_active_pokemon_species" ->
             set_active_pokemon_species(b, c.player, c.names[1])
      [] c.op = "set_species" -> set_species(b, c.player, c.pokemon, c.names[1])
      [] c.op = "set_active_pokemon_types" ->
             set_active_pokemon_types(b, c.player, c.names)
      [] c.op = "set_types" -> set_types(b, c.player, c.pokemon, c.names)
      [] c.op = "set_moves" -> set_moves(b, c.player, c.pokemon, c.moves)

\* the Battles of S after the calls i.. of the sequence calls, made in order
RECURSIVE Run(_, _, _)
Run(S, calls, i) ==
    IF i > Len(calls)
    THEN S
    ELSE Run({Apply(b, calls[i]).b : b \in S}, calls, i + 1)

\* a run of setter calls after which every field the setters write holds set
\* and clear bits
BusyCalls ==
    <<[On("set_boosts", P1, 0) EXCEPT !.keys = {"atk", "spe"},
                                      !.vals = [k \in BoostNames |-> 1]],
      [On("set_boosts", P2, 0) EXCEPT
          !.keys = BoostNames,
          !.vals = [atk |-> -6, def |-> 6, spe |-> -1, spc |-> 2,
                    accuracy |-> -3, evasion |-> 5]],
      [On("set_volatile", P1, VolatileFlag.Reflect) EXCEPT !.on = TRUE],
      [On("set_volatile", P1, VolatileFlag.Confusion) EXCEPT !.on = TRUE],
      [On("set_volatile", P1, VolatileFlag.Toxic) EXCEPT !.on = TRUE],
      [On("set_volatile", P2, VolatileFlag.Transform) EXCEPT !.on = TRUE],
      [On("set_volatile", P2, VolatileFlag.Bide) EXCEPT !.on = TRUE],
      On("set_confusion_turns_left", P1, 5),
      On("set_attacks_left", P1, 3),
      On("set_confusion_turns_left", P2, 2),
      On("set_attacks_left", P2, 6),
      On("set_volatile_state", P1, 48879),
      On("set_volatile_state", P2, 258),
      On("set_substitute_hp", P1, 127),
      [On("set_transformed_into", P1, P2) EXCEPT !.m = 5],
      [On("set_transformed_into", P2, P1) EXCEPT !.m = 2],
      [On("set_disable_data", P1, 3) EXCEPT !.m = 9],
      [On("set_disable_data", P2, 4) EXCEPT !.m = 6],
      On("set_toxic_severity", P1, 21),
      On("set_toxic_severity", P2, 10),
      OnSlot("set_current_hp", P1, 1, 513),
      OnSlot("set_status", P1, 2, 8),
      OnSlot("set_level", P2, 1, 77),
      On("set_turn", P1, 300),
      On("set_last_damage", P1, 65280),
      [OnSlot("set_moves", P1, Active, 0) EXCEPT
          !.moves = <<<<"Psychic", 16>>, <<"Recover", 3>>,
                      <<"Tackle", 56>>, <<"Growl", 61>>>>]>>

Busy == Only(Run({Fresh}, BusyCalls, 1))

\* a run of setter calls that sets every bit of the player's boosts and
\* volatiles that a legal call can set
FillCalls(player) ==
    [f \in 1..(VolatileFlag.Transform + 1) |->
        [On("set_volatile", player, f - 1) EXCEPT !.on = TRUE]]
    \o <<On("set_confusion_turns_left", player, 7),
         On("set_attacks_left", player, 7),
         On("set_volatile_state", player, 65535),
         On("set_substitute_hp", player, 255),
         [On("set_transformed_into", player, P2) EXCEPT !.m = 6],
         [On("set_disable_data", player, 7) EXCEPT !.m = 15],
         On("set_toxic_severity", player, 31),
         [On("set_boosts", player, 0) EXCEPT !.keys = BoostNames,
                                              !.vals = [k \in BoostNames |-> -1]]>>

Full == Only(Run({Fresh}, FillCalls(P1) \o FillCalls(P2), 1))

PreStates == {Fresh, Busy, Full}

\* a call on the Battle: r is what the call leaves, c describes the call
Call(r, c) ==
    /\ steps < MaxSteps
    /\ bytes' = r.b
    /\ prev' = bytes
    /\ last' = [c EXCEPT !.raised = r.raised]
    /\ steps' = steps + 1
    /\ UNCHANGED <<teams, sc, args, proto>>

InitSetters ==
    /\ bytes \in PreStates
    /\ prev = bytes
    /\ last = NoCall
    /\ steps = 0
    /\ teams = <<Team1, Team2>>
    /\ sc = NoStatcalc
    /\ args = DefaultArgs
    /\ proto = NoProtocol

---------------------------------------------------------------------------
(* set_boosts                                                              *)

\* one value for every key, all different
BoostSample ==
    [atk |-> -2, def |-> 6, spe |-> -6, spc |-> 3, accuracy |-> -1, evasion |-> 5]

\* the PartialBoostData dictionaries passed to set_boosts, as <<keys, values>>:
\* every subset of the keys with the sample values, and the first and the last
\* key alone with every value of [-6, 6]
BoostInputs ==
    {<<keys, BoostSample>> : keys \in SUBSET BoostNames}
    \cup {<<{k}, [j \in BoostNames |-> v]>> : k \in {"atk", "evasion"}, v \in (-6)..6}

SetBoosts ==
    \E player \in Players, input \in BoostInputs :
        Call(set_boosts(bytes, player, [k \in input[1] |-> input[2][k]]),
             [NoCall EXCEPT !.op = "set_boosts", !.player = player,
                            !.keys = input[1], !.vals = input[2]])

NextBoosts == SetBoosts

SpecBoosts == InitSetters /\ [][NextBoosts]_vars

\* C1: after set_boosts(player, partial), boosts(player) returns the supplied
\* value for every key of partial and the value it returned before the call for
\* every other key; setting only atk to -2 on atk 1, spe 1 (others 0) gives
\* atk -2, spe 1 (others 0).
C1_PartialBoosts ==
    last.op = "set_boosts" =>
        /\ ~last.raised
        /\ \A k \in BoostNames :
               boosts(bytes, last.player)[k] =
                   IF k \in last.keys THEN last.vals[k] ELSE boosts(prev, last.player)[k]
        /\ (/\ last.keys = {"atk"}
            /\ last.vals["atk"] = -2
            /\ boosts(prev, last.player) =
                   [atk |-> 1, def |-> 0, spe |-> 1, spc |-> 0, accuracy |-> 0, evasion |-> 0])
           => boosts(bytes, last.player) =
                   [atk |-> -2, def |-> 0, spe |-> 1, spc |-> 0, accuracy |-> 0, evasion |-> 0]

\* the example of C1 has happened
C1_Witness ==
    /\ last.op = "set_boosts"
    /\ last.keys = {"atk"}
    /\ last.vals["atk"] = -2
    /\ boosts(prev, last.player) =
           [atk |-> 1, def |-> 0, spe |-> 1, spc |-> 0, accuracy |-> 0, evasion |-> 0]
    /\ boosts(bytes, last.player)["spe"] = 1

---------------------------------------------------------------------------
(* The setters of the volatiles region                                     *)

\* counter values: the 3-bit range and the values next to it
CounterInputs == (-1)..9
\* toxic counter values: the 5-bit range and the value after it
ToxicInputs == 0..32
\* disable durations around the 4-bit range
DurationInputs == {0, 9, 15, 16}
\* disabled move slots around the 3-bit range
MoveSlotInputs == {0, 5, 7, 8}

SetVolatile ==
    \E player \in Players, flag \in Flags, value \in BOOLEAN :
        Call(set_volatile(bytes, player, flag, value),
             [NoCall EXCEPT !.op = "set_volatile", !.player = player,
                            !.n = flag, !.on = value])

SetConfusionTurnsLeft ==
    \E player \in Players, n \in CounterInputs :
        Call(set_confusion_turns_left(bytes, player, n),
             [NoCall EXCEPT !.op = "set_confusion_turns_left", !.player = player, !.n = n])

SetAttacksLeft ==
    \E player \in Players, n \in CounterInputs :
        Call(set_attacks_left(bytes, player, n),
             [NoCall EXCEPT !.op = "set_attacks_left", !.player = player, !.n = n])

SetTransformedInto ==
    \E player \in Players, target \in Players, slot \in Slots :
        Call(set_transformed_into(bytes, player, <<target, slot>>),
             [NoCall EXCEPT !.op = "set_transformed_into", !.player = player,
                            !.n = target, !.m = slot])

SetDisableData ==
    \E player \in Players, move_slot \in MoveSlotInputs, turns_left \in DurationInputs :
        Call(set_disable_data(bytes, player,
                              [move_slot |-> move_slot, turns_left |-> turns_left]),
             [NoCall EXCEPT !.op = "set_disable_data", !.player = player,
                            !.n = move_slot, !.m = turns_left])

SetToxicSeverity ==
    \E player \in Players, n \in ToxicInputs :
        Call(set_toxic_severity(bytes, player, n),
             [NoCall EXCEPT !.op = "set_toxic_severity", !.player = player, !.n = n])

NextVolatiles ==
    \/ SetVolatile
    \/ SetConfusionTurnsLeft
    \/ SetAttacksLeft
    \/ SetTransformedInto
    \/ SetDisableData
    \/ SetToxicSeverity

SpecVolatiles == InitSetters /\ [][NextVolatiles]_vars

\* the last call was op on a value its field can hold
LegalCall(op) ==
    /\ last.op = op
    /\ op \in {"set_confusion_turns_left", "set_attacks_left"} => last.n \in 0..7
    /\ op = "set_toxic_severity" => last.n \in 0..31
    /\ op = "set_disable_data" => last.n \in 0..7 /\ last.m \in 0..15

\* the getter g reads the same value from the buffer before and after the call
Kept(g(_, _)) == g(bytes, last.player) = g(prev, last.player)

ReflectFlag(b, player) == volatile(b, player, VolatileFlag.Reflect)
TransformFlag(b, player) == volatile(b, player, VolatileFlag.Transform)
DisableDuration(b, player) == disable_data(b, player).turns_left
DisableMove(b, player) == disable_data(b, player).move_slot

\* C2: bit isolation inside the volatiles region.  Of the fields that share a
\* byte (the Reflect flag, the Transform flag, the confusion counter and the
\* attacks counter; the transform target and the disable duration; the disabled
\* move slot and the toxic counter), a setter called with a legal value leaves
\* what the getter of every other field of the same byte reads unchanged.
C2_BitIsolation ==
    /\ (LegalCall("set_volatile") /\ last.n = VolatileFlag.Reflect) =>
           ~last.raised /\ Kept(TransformFlag) /\ Kept(confusion_turns_left)
           /\ Kept(attacks_left)
    /\ (LegalCall("set_volatile") /\ last.n = VolatileFlag.Transform) =>
           ~last.raised /\ Kept(ReflectFlag) /\ Kept(confusion_turns_left)
           /\ Kept(attacks_left)
    /\ LegalCall("set_confusion_turns_left") =>
           ~last.raised /\ Kept(ReflectFlag) /\ Kept(TransformFlag) /\ Kept(attacks_left)
    /\ LegalCall("set_attacks_left") =>
           ~last.raised /\ Kept(ReflectFlag) /\ Kept(TransformFlag)
           /\ Kept(confusion_turns_left)
    /\ LegalCall("set_transformed_into") => ~last.raised /\ Kept(DisableDuration)
    /\ LegalCall("set_disable_data") =>
           ~last.raised /\ Kept(transformed_into) /\ Kept(toxic_severity)
    /\ LegalCall("set_toxic_severity") => ~last.raised /\ Kept(DisableMove)

\* a field was rewritten with a new value while its neighbour in the byte held
\* set bits
C2_Witness ==
    /\ LegalCall("set_transformed_into")
    /\ transformed_into(bytes, last.player) /= transformed_into(prev, last.player)
    /\ DisableDuration(prev, last.player) = 9

\* C4: after set_volatile(player, f, b), volatile(player, f) is b, every other
\* flag of the player reads as before, and the confusion counter, the attacks
\* counter and the low byte of the volatile state (the rest of the 32-bit word
\* the setter rewrites) are unchanged.
C4_FlagsIndependent ==
    last.op = "set_volatile" =>
        /\ ~last.raised
        /\ volatile(bytes, last.player, last.n) = last.on
        /\ \A g \in Flags \ {last.n} :
               volatile(bytes, last.player, g) = volatile(prev, last.player, g)
        /\ Kept(confusion_turns_left)
        /\ Kept(attacks_left)
        /\ bytes[VolatilesOffset(last.player) + (LAYOUT_OFFSETS.Volatiles.state \div 8)]
               = prev[VolatilesOffset(last.player) + (LAYOUT_OFFSETS.Volatiles.state \div 8)]

\* a flag was cleared next to set flags and non-zero counters
C4_Witness ==
    /\ last.op = "set_volatile"
    /\ ~last.on
    /\ volatile(prev, last.player, last.n)
    /\ ~volatile(bytes, last.player, last.n)
    /\ \E g \in Flags \ {last.n} : volatile(bytes, last.player, g)
    /\ confusion_turns_left(bytes, last.player) = 5
    /\ attacks_left(bytes, last.player) = 3

C6_FailedDisableAppliesNothing ==
    (/\ last.op = "set_disable_data"
     /\ last.raised
     /\ last.m \in 0..15
     /\ last.n > 7)
    => bytes = prev

---------------------------------------------------------------------------
(* The scalar setters                                                      *)

U16Inputs == {0, 1, 255, 256, 48879, 65535}
HpInputs == {0, 513, 65535}
ByteInputs == {1, 100, 255}
\* raw status bytes: healthy, self-inflicted sleep for 5 turns, every bit set
StatusInputs == {0, 133, 255}
SubstituteInputs == {0, 1, 128, 255}

SetTurn ==
    \E n \in U16Inputs :
        Call(set_turn(bytes, n), [NoCall EXCEPT !.op = "set_turn", !.n = n])

SetLastDamage ==
    \E n \in U16Inputs :
        Call(set_last_damage(bytes, n), [NoCall EXCEPT !.op = "set_last_damage", !.n = n])

SetCurrentHp ==
    \E player \in Players, pokemon \in Slots, n \in HpInputs :
        Call(set_current_hp(bytes, player, pokemon, n),
             [NoCall EXCEPT !.op = "set_current_hp", !.player = player,
                            !.pokemon = pokemon, !.n = n])

SetVolatileState ==
    \E player \in Players, n \in U16Inputs :
        Call(set_volatile_state(bytes, player, n),
             [NoCall EXCEPT !.op = "set_volatile_state", !.player = player, !.n = n])

SetLevel ==
    \E player \in Players, pokemon \in Slots, n \in ByteInputs :
        Call(set_level(bytes, player, pokemon, n),
             [NoCall EXCEPT !.op = "set_level", !.player = player,
                            !.pokemon = pokemon, !.n = n])

SetSubstituteHp ==
    \E player \in Players, n \in SubstituteInputs :
        Call(set_substitute_hp(bytes, player, n),
             [NoCall EXCEPT !.op = "set_substitute_hp", !.player = player, !.n = n])

SetStatus ==
    \E player \in Players, pokemon \in Slots, n \in StatusInputs :
        Call(set_status(bytes, player, pokemon, n),
             [NoCall EXCEPT !.op = "set_status", !.player = player,
                            !.pokemon = pokemon, !.n = n])

NextScalars ==
    \/ SetTurn
    \/ SetLastDamage
    \/ SetCurrentHp
    \/ SetVolatileState
    \/ SetLevel
    \/ SetSubstituteHp
    \/ SetStatus
    \/ SetConfusionTurnsLeft
    \/ SetAttacksLeft
    \/ SetToxicSeverity

SpecScalars == InitSetters /\ [][NextScalars]_vars

\* the two bytes at offset hold v as a little-endian u16
IsU16LE(b, offset, v) == b[offset] = v % 256 /\ b[offset + 1] = v \div 256

\* C3: every scalar setter called with a legal value does not fail, and its
\* getter then returns that value; the u16 fields hold it little-endian.
C3_ScalarRoundTrip ==
    /\ last.op = "set_turn" =>
           ~last.raised /\ turn(bytes) = last.n /\ IsU16LE(bytes, LAYOUT_OFFSETS.Battle.turn, last.n)
    /\ last.op = "set_last_damage" =>
           ~last.raised /\ last_damage(bytes) = last.n
           /\ IsU16LE(bytes, LAYOUT_OFFSETS.Battle.last_damage, last.n)
    /\ last.op = "set_current_hp" =>
           ~last.raised /\ current_hp(bytes, last.player, last.pokemon) = last.n
    /\ last.op = "set_volatile_state" =>
           ~last.raised /\ volatile_state(bytes, last.player) = last.n
           /\ IsU16LE(bytes, VolatilesOffset(last.player) + 3, last.n)
    /\ last.op = "set_level" =>
           ~last.raised /\ level(bytes, last.player, last.pokemon) = last.n
    /\ last.op = "set_substitute_hp" =>
           ~last.raised /\ substitute_hp(bytes, last.player) = last.n
    /\ last.op = "set_status" =>
           ~last.raised /\ status(bytes, last.player, last.pokemon) = last.n
    /\ LegalCall("set_confusion_turns_left") =>
           ~last.raised /\ confusion_turns_left(bytes, last.player) = last.n
    /\ LegalCall("set_attacks_left") =>
           ~last.raised /\ attacks_left(bytes, last.player) = last.n
    /\ LegalCall("set_toxic_severity") =>
           ~last.raised /\ toxic_severity(bytes, last.player) = last.n

\* the largest toxic counter has been written over a smaller one and read back
C3_Witness ==
    /\ LegalCall("set_toxic_severity")
    /\ last.n = 31
    /\ toxic_severity(prev, last.player) = 21
    /\ toxic_severity(bytes, last.player) = 31

---------------------------------------------------------------------------
(* statcalc on bounded inputs                                              *)

BaseInputs == {0, 20, 100, 250, 255}
\* levels of the game, and levels at which the stat passes 65535
LevelInputs == {1, 50, 100, 255, 11000, 65535}
DVInputs == {0, 7, 15}
\* 65025 is 255 squared
ExperienceInputs == {0, 1, 2, 30000, 65024, 65025, 65026, 65535}

InitStat ==
    /\ bytes = ZeroBuffer
    /\ prev = bytes
    /\ last = NoCall
    /\ steps = 0
    /\ teams = <<Team1, Team2>>
    /\ args = DefaultArgs
    /\ proto = NoProtocol
    /\ \E base_value \in BaseInputs, is_HP \in BOOLEAN, level_ \in LevelInputs,
          dv \in DVInputs, experience \in ExperienceInputs :
           sc = [base_value |-> base_value, is_HP |-> is_HP, level |-> level_,
                 dv |-> dv, experience |-> experience, result |-> 0, done |-> FALSE]

Statcalc ==
    /\ ~sc.done
    /\ sc' = [sc EXCEPT
                 !.result = statcalc(sc.base_value, sc.is_HP, sc.level, sc.dv,
                                     sc.experience),
                 !.done = TRUE]
    /\ UNCHANGED <<bytes, prev, last, steps, teams, args, proto>>

NextStat == Statcalc

SpecStat == InitStat /\ [][NextStat]_vars

\* the EV term of the claim: 255 once sqrt(experience) > 255, and otherwise a
\* quarter of the least k with k * k >= experience
EvTerm(experience) ==
    IF experience > 255 * 255
    THEN 255
    ELSE CHOOSE k \in 0..255 : k * k >= experience /\ \A j \in 0..(k - 1) : j * j < experience

\* C7: statcalc(base, is_HP, level, dv, experience) is
\* ((2 * (base + dv) + min(255, ceil(sqrt(experience))) // 4) * level // 100
\*  + (level + 10 if is_HP else 5)) mod 65536, with the EV term 255 for every
\* experience whose square root is above 255, and lies in 0..65535.
C7_StatFormula ==
    sc.done =>
        /\ sc.result \in 0..65535
        /\ \E q \in 0..((603 * 65535) \div 65536) :
               sc.result + 65536 * q =
                   ((2 * (sc.base_value + sc.dv) + (EvTerm(sc.experience) \div 4)) * sc.level)
                       \div 100
                   + (IF sc.is_HP THEN sc.level + 10 ELSE 5)

\* a stat above 65535 has wrapped, with the EV term saturated
C7_Witness ==
    /\ sc.done
    /\ sc.base_value = 255 /\ sc.dv = 15 /\ ~sc.is_HP
    /\ sc.level = 11000 /\ sc.experience = 65026
    /\ sc.result = 799

\* C8 as stated: statcalc(base=100, is_HP=False, level=100, dv=15,
\* experience=65535) is 299.
C8_Original ==
    (/\ sc.done
     /\ sc.base_value = 100 /\ ~sc.is_HP /\ sc.level = 100 /\ sc.dv = 15
     /\ sc.experience = 65535)
    => sc.result = 299

\* C8, amended: statcalc(base=100, is_HP=False, level=100, dv=15,
\* experience=65535) is 298.
C8_Amended ==
    (/\ sc.done
     /\ sc.base_value = 100 /\ ~sc.is_HP /\ sc.level = 100 /\ sc.dv = 15
     /\ sc.experience = 65535)
    => sc.result = 298

\* statcalc has been applied to the inputs of C8
C8_Witness ==
    /\ sc.done
    /\ sc.base_value = 100 /\ ~sc.is_HP /\ sc.level = 100 /\ sc.dv = 15
    /\ sc.experience = 65535

---------------------------------------------------------------------------
(* Construction and set_moves                                              *)

\* roster members: with and without a move_pp override, with fewer than four
\* moves, with the move "None" in the moveset, and the species "None"
Members ==
    [mew |-> Pokemon("Mew", <<"Psychic", "Recover">>, NoExtra),
     chansey |-> Pokemon("Chansey", <<"Growl", "None", "Tackle", "Explosion">>, NoExtra),
     karp |-> Pokemon("Magikarp", <<"Tackle">>,
                      [NoExtra EXCEPT !.keys = {"level"}, !.level = 100]),
     starmie |-> Pokemon("Starmie", <<"Psychic", "Recover", "Tackle", "Growl">>,
                         [NoExtra EXCEPT !.keys = {"move_pp"}, !.move_pp = <<1, 2, 3, 4>>]),
     mew_pp |-> Pokemon("Mew", <<"Growl", "None">>,
                        [NoExtra EXCEPT !.keys = {"move_pp"}, !.move_pp = <<5, 7, 0, 0>>]),
     none |-> Pokemon("None", <<"None">>, NoExtra)]

P1Teams ==
    {<<Members.mew>>, <<Members.chansey>>, <<Members.starmie>>, <<Members.mew_pp>>,
     <<Members.mew, Members.chansey>>, <<Members.karp, Members.none, Members.mew>>}

P2Teams == {<<Members.karp>>, <<Members.chansey, Members.starmie>>}

\* the new_moves tuples passed to set_moves
MoveInputs ==
    {<<<<"Tackle", 35>>, <<"Growl", 40>>, <<"Psychic", 10>>, <<"Recover", 20>>>>,
     <<<<"Explosion", 8>>, <<"None", 0>>, <<"None", 0>>, <<"None", 0>>>>,
     <<<<"Tackle", 0>>, <<"None", 5>>, <<"None", 0>>, <<"None", 0>>>>,
     <<<<"None", 0>>, <<"None", 0>>, <<"None", 0>>, <<"None", 0>>>>}

InitMoves ==
    /\ teams \in {<<t1, t2>> : t1 \in P1Teams, t2 \in P2Teams}
    /\ bytes = Battle_init(teams[1], teams[2], DefaultArgs).b
    /\ prev = bytes
    /\ last = NoCall
    /\ steps = 0
    /\ sc = NoStatcalc
    /\ args = DefaultArgs
    /\ proto = NoProtocol

SetMoves ==
    \E player \in Players, pokemon \in Slots \cup {Active}, new_moves \in MoveInputs :
        Call(set_moves(bytes, player, pokemon, new_moves),
             [NoCall EXCEPT !.op = "set_moves", !.player = player,
                            !.pokemon = pokemon, !.moves = new_moves])

NextMoves == SetMoves

SpecMoves == InitMoves /\ [][NextMoves]_vars

\* the team of a player
TeamOf(player) == teams[player + 1]

\* C9: right after construction, for every roster member built without a
\* move_pp override, each move slot that holds a move has
\* PP = min(floor(base_pp * 8 / 5), 61) (61 for base PP 40), and each slot with
\* no move (past the moveset, or the move "None") has move id 0 and PP 0.
C9_DefaultPP ==
    last.op = "init" =>
        \A player \in Players :
            \A i \in 1..Len(TeamOf(player)) :
                LET member == TeamOf(player)[i]
                IN  "move_pp" \notin member.extra.keys =>
                        \A n \in 0..3 :
                            LET slot == MoveSlot(bytes, player, i, n)
                                empty == n >= Len(member.moves) \/ member.moves[n + 1] = "None"
                            IN  IF empty
                                THEN slot = <<0, 0>>
                                ELSE LET base == MOVES[member.moves[n + 1]]
                                         scaled == (base * 8) \div 5
                                     IN  /\ slot[1] = MOVE_IDS[member.moves[n + 1]]
                                         /\ slot[1] /= 0
                                         /\ slot[2] = (IF scaled > 61 THEN 61 ELSE scaled)
                                         /\ base = 40 => slot[2] = 61

\* a Battle was constructed with a member that has no move_pp override, a move
\* of base PP 40, the move "None" and a move of base PP 5
C9_Witness ==
    /\ last.op = "init"
    /\ TeamOf(P1)[1] = Members.chansey
    /\ MoveSlot(bytes, P1, 1, 0) = <<45, 61>>
    /\ MoveSlot(bytes, P1, 1, 1) = <<0, 0>>
    /\ MoveSlot(bytes, P1, 1, 3) = <<153, 8>>

\* C10: in every state reached by constructing a Battle and calling set_moves,
\* every move slot whose move id is 0 has PP 0.
C10_EmptySlotPP ==
    \A player \in Players :
        \A pokemon \in Slots \cup {Active} :
            \A n \in 0..3 :
                MoveSlot(bytes, player, pokemon, n)[1] = 0 =>
                    MoveSlot(bytes, player, pokemon, n)[2] = 0

---------------------------------------------------------------------------
(* Construction: Battle(p1_team, p2_team, ...)                             *)

\* the caller holds no Battle
NoBattle == <<>>

\* explicit stats, nothing like what statcalc gives for any species
GivenStats == [hp |-> 300, atk |-> 1, def |-> 2, spe |-> 3, spc |-> 65535]

\* roster members: without overrides, with each override of hp, level, stats,
\* dvs and exp, the species "None" with and without overrides, and members
\* naming a species or a move that does not exist
InitMembers ==
    [plain |-> Pokemon("Mew", <<"Psychic">>, NoExtra),
     lvl |-> Pokemon("Chansey", <<"Tackle", "Growl">>,
                     [NoExtra EXCEPT !.keys = {"level"}, !.level = 50]),
     hp |-> Pokemon("Starmie", <<"Recover">>, [NoExtra EXCEPT !.keys = {"hp"}, !.hp = 7]),
     stats |-> Pokemon("Magikarp", <<"Tackle">>,
                       [NoExtra EXCEPT !.keys = {"stats", "level", "dvs", "exp"},
                                       !.stats = GivenStats, !.level = 5]),
     stats_hp |-> Pokemon("Mew", <<"Growl">>,
                          [NoExtra EXCEPT !.keys = {"stats", "hp"},
                                          !.stats = GivenStats, !.hp = 9]),
     dvs |-> Pokemon("Starmie", <<"Psychic", "Tackle">>,
                     [NoExtra EXCEPT
                         !.keys = {"dvs", "exp", "level"}, !.level = 42,
                         !.dvs = [hp |-> 0, atk |-> 7, def |-> 15, spe |-> 3, spc |-> 9],
                         !.exp = [hp |-> 0, atk |-> 1000, def |-> 65535,
                                  spe |-> 2500, spc |-> 40000]]),
     none |-> Pokemon("None", <<"None">>, NoExtra),
     none_stats |-> Pokemon("None", <<"None">>,
                            [NoExtra EXCEPT !.keys = {"stats"}, !.stats = GivenStats]),
     none_types |-> Pokemon("None", <<"None">>,
                            [NoExtra EXCEPT !.keys = {"types"},
                                            !.types = <<"Fire", "Ghost">>]),
     none_hp |-> Pokemon("None", <<"None">>, [NoExtra EXCEPT !.keys = {"hp"}, !.hp = 5]),
     bad_species |-> Pokemon("Missingno", <<"Tackle">>, NoExtra),
     bad_move |-> Pokemon("Mew", <<"Tackle", "Splashh">>, NoExtra)]

\* rosters of one to six members; the invalid member is first, in the middle
\* or last
Rosters ==
    LET m == InitMembers
    IN  {<<m.plain>>,
         <<m.lvl, m.hp>>,
         <<m.stats, m.stats_hp, m.dvs>>,
         <<m.none, m.plain, m.none_stats, m.none_types>>,
         <<m.plain, m.lvl, m.hp, m.stats, m.dvs>>,
         <<m.plain, m.lvl, m.hp, m.stats, m.dvs, m.none_hp>>,
         <<m.bad_species>>,
         <<m.plain, m.bad_species, m.lvl>>,
         <<m.plain, m.lvl, m.hp, m.stats, m.dvs, m.bad_species>>,
         <<m.bad_move>>,
         <<m.plain, m.lvl, m.bad_move>>,
         <<m.none_hp>>}

\* the values random.randrange returns when no seed is given
RandomInputs == {<<9, 8, 7, 6, 5, 4, 3, 2, 1, 255>>, <<0, 0, 0, 0, 0, 0, 0, 0, 0, 0>>}

\* a seed list of ten values
TenSeed == Seed("list", <<10, 20, 30, 40, 50, 60, 70, 80, 90, 100>>)

SeedInputs ==
    {NoSeed(random) : random \in RandomInputs}
    \cup {Seed("int", <<1, 2, 3, 4, 5, 6, 7, 8>>), TenSeed}

\* seed lists of fewer and of more than ten values
OtherSeedLists == {<<11, 22, 33>>, <<1, 2, 3, 4, 5, 6, 7, 8, 9, 10, 110>>}

\* the pairs <<p1_move_idx, p2_move_idx>> given to the constructor
MoveIndexInputs == {<<4, 0>>, <<0, 4>>, <<3, 1>>}

\* the arguments of Battle.__init__ other than the teams: every seed against
\* both builds of libpkmn, move indexes with a seed the build accepts, seed
\* lists of other lengths, and each last move given, known and unknown
ArgInputs ==
    {[DefaultArgs EXCEPT !.rng_seed = seed, !.libpkmn = compatible] :
        seed \in SeedInputs, compatible \in {0, 1}}
    \cup {[DefaultArgs EXCEPT !.p1_last_selected_move = "Tackle",
                              !.p2_last_used_move = "Growl",
                              !.start_turn = 300, !.last_damage = 77,
                              !.p1_move_idx = 2, !.p2_move_idx = 3,
                              !.libpkmn = compatible] : compatible \in {0, 1}}
    \cup {[DefaultArgs EXCEPT !.p1_move_idx = idx[1], !.p2_move_idx = idx[2],
                              !.rng_seed = IF compatible = 1 THEN DefaultArgs.rng_seed
                                           ELSE TenSeed,
                              !.libpkmn = compatible] :
             idx \in MoveIndexInputs, compatible \in {0, 1}}
    \cup {[DefaultArgs EXCEPT !.rng_seed = Seed("list", seed), !.libpkmn = 0] :
             seed \in OtherSeedLists}
    \cup {[DefaultArgs EXCEPT !.p1_last_selected_move = "Splashh"],
          [DefaultArgs EXCEPT !.p1_last_used_move = "Splashh"],
          [DefaultArgs EXCEPT !.p2_last_selected_move = "Splashh"],
          [DefaultArgs EXCEPT !.p2_last_used_move = "Splashh"]}

InitConstruct ==
    /\ bytes = NoBattle
    /\ prev = NoBattle
    /\ last = [NoCall EXCEPT !.op = "none"]
    /\ steps = 0
    /\ teams = <<<<>>, <<>>>>
    /\ sc = NoStatcalc
    /\ args = DefaultArgs
    /\ proto = NoProtocol

\* battle = Battle(p1_team, p2_team, ...), the one construction of a run: when
\* __init__ raises, the caller gets no Battle and the buffer __init__ was
\* writing to is dropped with it
Construct ==
    /\ last.op = "none"
    /\ \E p1_team \in Rosters, p2_team \in Rosters, a \in ArgInputs :
           \E r \in {Battle_init(p1_team, p2_team, a)} :
               /\ bytes' = IF r.raised THEN NoBattle ELSE r.b
               /\ prev' = bytes
               /\ last' = [NoCall EXCEPT !.op = "Battle", !.raised = r.raised]
               /\ steps' = steps + 1
               /\ teams' = <<p1_team, p2_team>>
               /\ args' = a
               /\ UNCHANGED <<sc, proto>>

NextConstruct == Construct

SpecConstruct == InitConstruct /\ [][NextConstruct]_vars

\* a Battle was constructed and returned
Constructed == last.op = "Battle" /\ ~last.raised

\* the offset of a side and the bytes of a roster slot
SideOffset(player) == LAYOUT_OFFSETS.Battle.sides + (LAYOUT_SIZES.Side * player)
SlotBytes(b, player, pokemon) ==
    [k \in 0..(LAYOUT_SIZES.Pokemon - 1) |-> b[PokemonOffset(player, pokemon) + k]]

\* C11: after constructing a Battle, for each side with its own roster size N
\* (1 <= N <= 6), the order bytes are 1, 2, ..., N in positions 0..N-1 and 0 in
\* positions N..5, and every roster slot greater than N has species id 0 and
\* all its bytes zero.
C11_OrderPermutation ==
    Constructed =>
        \A player \in Players :
            LET N == Len(TeamOf(player))
                order == SideOffset(player) + LAYOUT_OFFSETS.Side.order
            IN  /\ N \in 1..6
                /\ \A i \in 0..5 : bytes[order + i] = (IF i < N THEN i + 1 ELSE 0)
                /\ \A pokemon \in Slots :
                       pokemon > N =>
                           /\ SlotBytes(bytes, player, pokemon)[LAYOUT_OFFSETS.Pokemon.species] = 0
                           /\ \A k \in 0..(LAYOUT_SIZES.Pokemon - 1) :
                                  SlotBytes(bytes, player, pokemon)[k] = 0

\* a Battle was constructed with three members on one side and six on the
\* other, and the order bytes of the two sides differ accordingly
C11_Witness ==
    /\ Constructed
    /\ Len(TeamOf(P1)) = 3
    /\ Len(TeamOf(P2)) = 6
    /\ [i \in 0..5 |-> bytes[SideOffset(P1) + LAYOUT_OFFSETS.Side.order + i]]
           = [i \in 0..5 |-> IF i < 3 THEN i + 1 ELSE 0]
    /\ [i \in 0..5 |-> bytes[SideOffset(P2) + LAYOUT_OFFSETS.Side.order + i]]
           = [i \in 0..5 |-> i + 1]
    /\ SlotBytes(bytes, P1, 3)[LAYOUT_OFFSETS.Pokemon.species] /= 0

\* the seed is of the kind the other build of libpkmn takes
SeedModeMismatch ==
    \/ args.libpkmn = 1 /\ args.rng_seed.kind = "list"
    \/ args.libpkmn /= 1 /\ args.rng_seed.kind = "int"

\* every species and every move named by the arguments exists
ValidMember(member) ==
    /\ member.species = "None" \/ member.species \in DOMAIN SPECIES
    /\ \A n \in 1..Len(member.moves) : member.moves[n] \in DOMAIN MOVE_IDS
ValidIdentifiers ==
    /\ \A player \in Players :
           \A i \in 1..Len(TeamOf(player)) : ValidMember(TeamOf(player)[i])
    /\ {args.p1_last_selected_move, args.p1_last_used_move,
        args.p2_last_selected_move, args.p2_last_used_move} \subseteq DOMAIN MOVE_IDS

C16_InvalidIdentifiersAbort ==
    (last.op = "Battle" /\ ~ValidIdentifiers) =>
        /\ last.raised
        /\ bytes = NoBattle

\* a construction was rejected whose only offender is the last of the six
\* members of the second roster, with an acceptable seed
C16_Witness ==
    /\ last.op = "Battle"
    /\ ~SeedModeMismatch
    /\ \A i \in 1..Len(TeamOf(P1)) : ValidMember(TeamOf(P1)[i])
    /\ Len(TeamOf(P2)) = 6
    /\ \A i \in 1..5 : ValidMember(TeamOf(P2)[i])
    /\ TeamOf(P2)[6].species \notin DOMAIN SPECIES \cup {"None"}
    /\ last.raised
    /\ bytes = NoBattle

\* the encoded stat of a roster slot is v; stats are packed in the order
\* hp, atk, def, spe, spc
StatIs(b, player, pokemon, stat, v) ==
    LET k == CHOOSE n \in 1..5 : StatNames[n] = stat
    IN  IsU16LE(b, PokemonOffset(player, pokemon) + LAYOUT_OFFSETS.Pokemon.stats
                       + 2 * (k - 1), v)

\* C17: for every roster member of a known species of a constructed Battle:
\* the encoded level is the 'level' override, else 100; the encoded stats are
\* the 'stats' override verbatim when given, whatever level, dvs and exp are,
\* and otherwise statcalc of the species' base stats with that level, the
\* 'dvs' override else 15, and the 'exp' override else 65535; and the encoded
\* current HP is the 'hp' override when given, else the encoded HP stat.
C17_DefaultResolution ==
    Constructed =>
        \A player \in Players :
            \A i \in 1..Len(TeamOf(player)) :
                LET member == TeamOf(player)[i]
                    x == member.extra
                    level_ == IF "level" \in x.keys THEN x.level ELSE 100
                    dv(stat) == IF "dvs" \in x.keys THEN x.dvs[stat] ELSE 15
                    experience(stat) == IF "exp" \in x.keys THEN x.exp[stat] ELSE 65535
                    computed(stat) ==
                        statcalc(SPECIES[member.species].stats[stat], stat = "hp",
                                 level_, dv(stat), experience(stat))
                    max_hp == IF "stats" \in x.keys THEN x.stats.hp ELSE computed("hp")
                IN  member.species /= "None" =>
                        /\ level(bytes, player, i) = level_
                        /\ \A stat \in DOMAIN ZeroStats :
                               StatIs(bytes, player, i, stat,
                                      IF "stats" \in x.keys THEN x.stats[stat]
                                      ELSE computed(stat))
                        /\ current_hp(bytes, player, i)
                               = (IF "hp" \in x.keys THEN x.hp ELSE max_hp)

\* a Battle was constructed whose first roster holds a member without
\* overrides, one with a level, one with an hp, one with stats, level, dvs and
\* exp, and one with level, dvs and exp; each is encoded by its own rule
C17_Witness ==
    /\ Constructed
    /\ TeamOf(P1) = <<InitMembers.plain, InitMembers.lvl, InitMembers.hp,
                      InitMembers.stats, InitMembers.dvs>>
    /\ level(bytes, P1, 1) = 100 /\ current_hp(bytes, P1, 1) = 403
    /\ level(bytes, P1, 2) = 50
    /\ current_hp(bytes, P1, 3) = 7 /\ StatIs(bytes, P1, 3, "hp", 323)
    /\ level(bytes, P1, 4) = 5 /\ current_hp(bytes, P1, 4) = 300
    /\ StatIs(bytes, P1, 4, "spc", 65535)
    /\ level(bytes, P1, 5) = 42 /\ StatIs(bytes, P1, 5, "hp", 102)

\* the encoding of a member of species "None" in a constructed Battle, but
\* for its current HP: species id 0; without a 'stats' override the five stats
\* are 0, with one they are the override; without a 'types' override the type
\* pair is Normal/Normal (nibbles 0 and 0), with one it is the override
NoneEncoded(player, i) ==
    LET x == TeamOf(player)[i].extra
        o == PokemonOffset(player, i)
    IN  /\ bytes[o + LAYOUT_OFFSETS.Pokemon.species] = 0
        /\ \A stat \in DOMAIN ZeroStats :
               StatIs(bytes, player, i, stat,
                      IF "stats" \in x.keys THEN x.stats[stat] ELSE 0)
        /\ bytes[o + LAYOUT_OFFSETS.Pokemon.types]
               = (IF "types" \in x.keys
                  THEN ((CHOOSE n \in 0..14 : TYPES[n + 1] = x.types[1])
                        + 16 * (CHOOSE n \in 0..14 : TYPES[n + 1] = x.types[2]))
                  ELSE 0)

\* the members of species "None" of a constructed Battle, as <<player, slot>>
NoneMembers ==
    {ps \in Players \X Slots :
        /\ Constructed
        /\ ps[2] <= Len(TeamOf(ps[1]))
        /\ TeamOf(ps[1])[ps[2]].species = "None"}

\* C18 as stated: a member of species "None" is encoded with species id 0,
\* stats 0 and types Normal/Normal unless 'stats' or 'types' are supplied, and
\* its current HP is 0 unless 'stats' are supplied.
C18_Original ==
    \A ps \in NoneMembers :
        /\ NoneEncoded(ps[1], ps[2])
        /\ "stats" \notin TeamOf(ps[1])[ps[2]].extra.keys =>
               current_hp(bytes, ps[1], ps[2]) = 0

\* C18 amended: a member of species "None" is encoded with species id 0,
\* stats 0 and types Normal/Normal unless 'stats' or 'types' are supplied, and
\* its current HP is the 'hp' override when given, else the hp of the 'stats'
\* override when given, else 0.
C18_Amended ==
    \A ps \in NoneMembers :
        LET x == TeamOf(ps[1])[ps[2]].extra
        IN  /\ NoneEncoded(ps[1], ps[2])
            /\ current_hp(bytes, ps[1], ps[2])
                   = (IF "hp" \in x.keys THEN x.hp
                      ELSE IF "stats" \in x.keys THEN x.stats.hp
                      ELSE 0)

\* a Battle was constructed with members of species "None": one without
\* overrides, one with stats, one with types, and on the other side one with hp
C18_Witness ==
    /\ Constructed
    /\ TeamOf(P1) = <<InitMembers.none, InitMembers.plain, InitMembers.none_stats,
                      InitMembers.none_types>>
    /\ TeamOf(P2) = <<InitMembers.none_hp>>
    /\ current_hp(bytes, P1, 1) = 0
    /\ current_hp(bytes, P1, 3) = 300
    /\ bytes[PokemonOffset(P1, 4) + LAYOUT_OFFSETS.Pokemon.types] = 120
    /\ current_hp(bytes, P2, 1) = 5

---------------------------------------------------------------------------
(* Status: a Status object is its raw value, Status._value                  *)

_PSN == 3
_BRN == 4
_FRZ == 5
_PAR == 6

\* self._value & 0b1111
sleep_duration_u4(value) == value % 16

\* self._value & 0b111
sleep_duration(value) == value % 8

asleep(value) == sleep_duration(value) /= 0
healthy(value) == value = 0
burned(value) == Bit(value, _BRN) /= 0
frozen(value) == Bit(value, _FRZ) /= 0
paralyzed(value) == Bit(value, _PAR) /= 0
poisoned(value) == Bit(value, _PSN) /= 0

SLEEP(duration) == duration
HEALTHY == 0
POISONED == Pow2(_PSN)
BURNED == Pow2(_BRN)
FROZEN == Pow2(_FRZ)
PARALYZED == Pow2(_PAR)

\* 0x08 | duration
SELF_INFLICTED_SLEEP_bit3(duration) ==
    IF Bit(duration, 3) = 1 THEN duration ELSE duration + 8

\* 0x80 | duration
SELF_INFLICTED_SLEEP(duration) ==
    IF Bit(duration, 7) = 1 THEN duration ELSE duration + 128

\* the calls of the static methods of Status, as <<name, duration>>
StatusFactories ==
    {<<name, 0>> : name \in {"HEALTHY", "POISONED", "BURNED", "FROZEN", "PARALYZED"}}
    \cup {<<name, duration>> : name \in {"SLEEP", "SELF_INFLICTED_SLEEP"},
                               duration \in 0..7}

\* the Status a call of a static method returns
StatusOf(factory) ==
    CASE factory[1] = "HEALTHY" -> HEALTHY
      [] factory[1] = "POISONED" -> POISONED
      [] factory[1] = "BURNED" -> BURNED
      [] factory[1] = "FROZEN" -> FROZEN
      [] factory[1] = "PARALYZED" -> PARALYZED
      [] factory[1] = "SLEEP" -> SLEEP(factory[2])
      [] factory[1] = "SELF_INFLICTED_SLEEP" -> SELF_INFLICTED_SLEEP(factory[2])

\* battle.set_status(player, pokemon, Status.<factory>(...))
SetStatusOf ==
    \E player \in Players, pokemon \in Slots, factory \in StatusFactories :
        Call(set_status(bytes, player, pokemon, StatusOf(factory)),
             [op |-> "set_status", player |-> player, pokemon |-> pokemon,
              factory |-> factory[1], duration |-> factory[2], raised |-> FALSE])

NextStatus == SetStatusOf

SpecStatus == InitSetters /\ [][NextStatus]_vars

\* the predicates of Status that hold of a value, by name
PredicatesOf(value) ==
    {name \in {"healthy", "asleep", "poisoned", "burned", "frozen", "paralyzed"} :
        CASE name = "healthy" -> healthy(value)
          [] name = "asleep" -> asleep(value)
          [] name = "poisoned" -> poisoned(value)
          [] name = "burned" -> burned(value)
          [] name = "frozen" -> frozen(value)
          [] name = "paralyzed" -> paralyzed(value)}

\* the predicate a static method of Status is named after
NamedBy(factory) ==
    CASE factory = "HEALTHY" -> "healthy"
      [] factory = "POISONED" -> "poisoned"
      [] factory = "BURNED" -> "burned"
      [] factory = "FROZEN" -> "frozen"
      [] factory = "PARALYZED" -> "paralyzed"
      [] factory \in {"SLEEP", "SELF_INFLICTED_SLEEP"} -> "asleep"

\* set_status was called with the Status of a static method, the sleep
\* durations being in 1..7
StatusSet ==
    /\ last.op = "set_status"
    /\ last.factory \in {"SLEEP", "SELF_INFLICTED_SLEEP"} => last.duration \in 1..7

\* C19: after set_status with the Status of HEALTHY, POISONED, BURNED, FROZEN,
\* PARALYZED, SLEEP(d) or SELF_INFLICTED_SLEEP(d), d in 1..7, the Status that
\* status() reads back satisfies exactly one of healthy, asleep, poisoned,
\* burned, frozen, paralyzed, the one the static method is named after; its
\* sleep_duration is d for the two sleeps and 0 otherwise; and its byte is the
\* byte of the Status that was set.
C19_StatusFactoriesAgree ==
    StatusSet =>
        LET value == status(bytes, last.player, last.pokemon)
        IN  /\ ~last.raised
            /\ PredicatesOf(value) = {NamedBy(last.factory)}
            /\ sleep_duration(value)
                   = (IF last.factory \in {"SLEEP", "SELF_INFLICTED_SLEEP"}
                      THEN last.duration ELSE 0)
            /\ value = StatusOf(<<last.factory, last.duration>>)
            /\ value \in 0..255

\* the Status of BURNED was set on a slot that held the Status of POISONED,
\* and reads back as burned only
C19_Witness ==
    /\ last.op = "set_status"
    /\ last.factory = "BURNED"
    /\ status(prev, last.player, last.pokemon) = 8
    /\ status(bytes, last.player, last.pokemon) = 16
    /\ PredicatesOf(status(bytes, last.player, last.pokemon)) = {"burned"}
    /\ sleep_duration(status(bytes, last.player, last.pokemon)) = 0

\* C20 as stated: SELF_INFLICTED_SLEEP(d), d in 1..7, encodes d in bits 0-2
\* with bit 3 set, and bit 3 is none of the bits of poison, burn, freeze and
\* paralysis.
C20_Original ==
    (StatusSet /\ last.factory = "SELF_INFLICTED_SLEEP") =>
        LET value == status(bytes, last.player, last.pokemon)
        IN  /\ value % 8 = last.duration
            /\ Bit(value, 3) = 1
            /\ 3 \notin {_PSN, _BRN, _FRZ, _PAR}

\* C20 amended: SELF_INFLICTED_SLEEP(d), d in 1..7, encodes d in bits 0-2 with
\* bit 7 set and bits 3-6 clear, and bit 7 is none of the bits of poison (3),
\* burn (4), freeze (5) and paralysis (6).
C20_Amended ==
    (StatusSet /\ last.factory = "SELF_INFLICTED_SLEEP") =>
        LET value == status(bytes, last.player, last.pokemon)
        IN  /\ value % 8 = last.duration
            /\ Bit(value, 7) = 1
            /\ \A n \in 3..6 : Bit(value, n) = 0
            /\ 7 \notin {_PSN, _BRN, _FRZ, _PAR}
            /\ <<_PSN, _BRN, _FRZ, _PAR>> = <<3, 4, 5, 6>>
            /\ ~poisoned(value) /\ ~burned(value) /\ ~frozen(value) /\ ~paralyzed(value)

\* the Status of SELF_INFLICTED_SLEEP(5) was set and reads back as the byte 133
C20_Witness ==
    /\ last.op = "set_status"
    /\ last.factory = "SELF_INFLICTED_SLEEP"
    /\ last.duration = 5
    /\ status(bytes, last.player, last.pokemon) = 133

---------------------------------------------------------------------------
(* The turn protocol: update, possible_choices, and the driver run_battle  *)
(*                                                                         *)
(* The engine (libpkmn) is outside the repository.  Its answer to an       *)
(* update is drawn from EngineAnswers: the packed outcome, the legal       *)
(* choices of the two players in the state it leaves (what it answers the  *)
(* enumerations with until the next update), and whether it advanced the   *)
(* turn counter of the buffer.  Choices are opaque integers.               *)

\* Choice.PASS()._pkmn_choice
Choice_PASS == 0

\* the capacity of Battle._choice_buf
PKMN_OPTIONS_SIZE == 9

\* packed outcomes: the type, and the kind of choice each player must make
Outcomes ==
    {[type |-> "None", p1 |-> 1, p2 |-> 1], [type |-> "None", p1 |-> 2, p2 |-> 1],
     [type |-> "Win", p1 |-> 0, p2 |-> 0], [type |-> "Tie", p1 |-> 0, p2 |-> 0],
     [type |-> "Error", p1 |-> 0, p2 |-> 0]}

\* the result variable of the driver before its first assignment
NoResult == [type |-> "unset", p1 |-> 0, p2 |-> 0]

\* Result.is_error()
is_error(result) == result.type = "Error"

ChoiceLists == {<<>>, <<5>>, <<1, 6, 10>>}

EngineAnswers == [result : Outcomes, legal : ChoiceLists \X ChoiceLists, advanced : BOOLEAN]

\* the buffer the engine leaves after an update
EngineBuffer(b, answer) ==
    IF answer.advanced THEN set_turn(b, (turn(b) + 1) % Pow2(16)).b ELSE b

\* the engine writes the legal choices of the player to the front of out and
\* returns their number
pkmn_gen1_battle_choices(legal, player, requested_kind, out) ==
    LET options == legal[player + 1]
    IN  [count |-> Len(options),
         out |-> [i \in 1..Len(out) |-> IF i <= Len(options) THEN options[i] ELSE out[i]]]

\* _fill_choice_buffer asking the engine for the choices of P1 whoever the
\* player is
_fill_choice_buffer_p1(p, player, previous_turn_result) ==
    pkmn_gen1_battle_choices(p.legal, P1, previous_turn_result.p1, p.choice_buf)

_fill_choice_buffer(p, player, previous_turn_result) ==
    LET requested_kind ==
            IF player = P1 THEN previous_turn_result.p1 ELSE previous_turn_result.p2
    IN  pkmn_gen1_battle_choices(p.legal, player, requested_kind, p.choice_buf)

\* what a method of the protocol leaves: whether it raised and what, the
\* value it returned, the choice buffer, and the entry points of the engine it
\* called
possible_choices_raw(p, player, previous_turn_result) ==
    LET f == _fill_choice_buffer(p, player, previous_turn_result)
    IN  [raised |-> FALSE, exc |-> "", value |-> SubSeq(f.out, 1, f.count),
         choice_buf |-> f.out, engine |-> <<"pkmn_gen1_battle_choices">>]

\* possible_choices without its test of num_choices
possible_choices_unchecked(p, player, previous_turn_result) ==
    possible_choices_raw(p, player, previous_turn_result)

possible_choices(p, player, previous_turn_result) ==
    LET f == _fill_choice_buffer(p, player, previous_turn_result)
    IN  IF f.count = 0
        THEN [raised |-> TRUE, exc |-> "Softlock", value |-> <<>>,
              choice_buf |-> f.out, engine |-> <<"pkmn_gen1_battle_choices">>]
        ELSE [raised |-> FALSE, exc |-> "",
              value |-> [i \in 1..f.count |-> f.out[i]],
              choice_buf |-> f.out, engine |-> <<"pkmn_gen1_battle_choices">>]

\* update_raw without its test of the result
update_raw_unchecked(answer, p1_choice, p2_choice) ==
    [raised |-> FALSE, exc |-> "", value |-> <<answer.result, "trace_buf">>,
     engine |-> <<"pkmn_gen1_battle_update">>]

update_raw(answer, p1_choice, p2_choice) ==
    LET result == answer.result
    IN  IF is_error(result)
        THEN [raised |-> TRUE, exc |-> "Exception", value |-> <<>>,
              engine |-> <<"pkmn_gen1_battle_update">>]
        ELSE [raised |-> FALSE, exc |-> "", value |-> <<result, "trace_buf">>,
              engine |-> <<"pkmn_gen1_battle_update">>]

update(answer, p1_choice, p2_choice) == update_raw(answer, p1_choice, p2_choice)

\* positions of the driver
At(at, player) == [at |-> at, player |-> player]

\* the driver starting with an enumeration
FirstCall_enumerate == At("raw", P1)

\* the first statement of run_battle after the construction
FirstCall == At("update", P1)

\* a loop that never ends
Continue_always(result) == TRUE

\* the condition of the driver's loop
Continue(result) == result.type = "None"

\* proto: pc is the position of the driver; result, p_choices (the lengths of
\* the two slices of the choice buffer) and p_choice are its variables; legal
\* is the engine's; choice_buf is Battle._choice_buf; calls is the sequence
\* of the calls made on the Battle
InitDriver ==
    /\ \E random \in RandomInputs :
           /\ args = [DefaultArgs EXCEPT !.rng_seed = NoSeed(random)]
           /\ bytes = Battle_init(Team1, Team2, args).b
    /\ prev = bytes
    /\ last = NoCall
    /\ steps = 0
    /\ teams = <<Team1, Team2>>
    /\ sc = NoStatcalc
    /\ \E legal \in ChoiceLists \X ChoiceLists :
           proto = [pc |-> FirstCall, result |-> NoResult, legal |-> legal,
                    choice_buf |-> [i \in 1..PKMN_OPTIONS_SIZE |-> 0],
                    p_choices |-> <<0, 0>>, p_choice |-> <<Choice_PASS, Choice_PASS>>,
                    calls |-> <<>>]

\* a call of update or update_raw by the driver, r being what it leaves; the
\* driver goes on to the test of its loop.  last keeps as enumerated the legal
\* choices of the two players in the state the update was called on
Updated(op, answer, r, c1, c2) ==
    /\ bytes' = EngineBuffer(bytes, answer)
    /\ prev' = bytes
    /\ last' = [op |-> op, c1 |-> c1, c2 |-> c2, answer |-> answer.result,
                enumerated |-> proto.legal, choice_buf |-> proto.choice_buf,
                raised |-> r.raised, exc |-> r.exc, value |-> r.value,
                engine |-> r.engine]
    /\ proto' = [proto EXCEPT
                    !.pc = IF r.raised THEN At("raised", P1) ELSE At("while", P1),
                    !.result = IF r.raised THEN @ ELSE r.value[1],
                    !.legal = answer.legal,
                    !.calls = Append(@, [op |-> op, player |-> P1, raised |-> r.raised,
                                         pass |-> c1 = Choice_PASS /\ c2 = Choice_PASS])]
    /\ UNCHANGED <<steps, teams, sc, args>>

\* (result, trace) = battle.update(Choice.PASS(), Choice.PASS())
FirstUpdate ==
    /\ proto.pc = At("update", P1)
    /\ \E answer \in EngineAnswers :
           Updated("update", answer, update(answer, Choice_PASS, Choice_PASS),
                   Choice_PASS, Choice_PASS)

\* while result.type() == ResultType.NONE: ... choice += 1
LoopEnter ==
    /\ proto.pc = At("while", P1)
    /\ Continue(proto.result)
    /\ steps < MaxSteps
    /\ steps' = steps + 1
    /\ proto' = [proto EXCEPT !.pc = At("raw", P1)]
    /\ UNCHANGED <<bytes, prev, last, teams, sc, args>>

LoopExit ==
    /\ proto.pc = At("while", P1)
    /\ ~Continue(proto.result)
    /\ proto' = [proto EXCEPT !.pc = At("done", P1)]
    /\ UNCHANGED <<bytes, prev, last, steps, teams, sc, args>>

\* a call of possible_choices or possible_choices_raw by the driver
Enumerated(op, player, r, next) ==
    /\ last' = [op |-> op, player |-> player, count |-> Len(proto.legal[player + 1]),
                before |-> proto.choice_buf,
                raised |-> r.raised, exc |-> r.exc, value |-> r.value,
                engine |-> r.engine]
    /\ proto' = [proto EXCEPT
                    !.pc = IF r.raised THEN At("raised", player) ELSE next,
                    !.choice_buf = r.choice_buf,
                    !.p_choices[player + 1] =
                        IF op = "possible_choices_raw" THEN Len(r.value) ELSE @,
                    !.calls = Append(@, [op |-> op, player |-> player,
                                         raised |-> r.raised, pass |-> FALSE])]
    /\ UNCHANGED <<bytes, prev, steps, teams, sc, args>>

\* p1_choices = battle.possible_choices_raw(Player.P1, result), and for P2
EnumerateRaw ==
    \E player \in Players :
        /\ proto.pc = At("raw", player)
        /\ Enumerated("possible_choices_raw", player,
                      possible_choices_raw(proto, player, proto.result),
                      At("print", player))

\* print(battle.possible_choices(Player.P1, result)), and for P2
EnumeratePrint ==
    \E player \in Players :
        /\ proto.pc = At("print", player)
        /\ Enumerated("possible_choices", player,
                      possible_choices(proto, player, proto.result),
                      At("pick", player))

\* p1_choice = p1_choices[random.randrange(len(p1_choices))], and for P2;
\* p1_choices is a slice of the choice buffer, read as the buffer is now;
\* random.randrange(0) raises
Pick ==
    \E player \in Players :
        /\ proto.pc = At("pick", player)
        /\ IF proto.p_choices[player + 1] = 0
           THEN proto' = [proto EXCEPT !.pc = At("raised", player)]
           ELSE \E i \in 1..proto.p_choices[player + 1] :
                    proto' = [proto EXCEPT
                                 !.pc = IF player = P1 THEN At("raw", P2)
                                        ELSE At("update_raw", P1),
                                 !.p_choice[player + 1] = proto.choice_buf[i]]
        /\ UNCHANGED <<bytes, prev, last, steps, teams, sc, args>>

\* (result, trace) = battle.update_raw(p1_choice, p2_choice)
LoopUpdate ==
    /\ proto.pc = At("update_raw", P1)
    /\ \E answer \in EngineAnswers :
           Updated("update_raw", answer,
                   update_raw(answer, proto.p_choice[1], proto.p_choice[2]),
                   proto.p_choice[1], proto.p_choice[2])

NextDriver ==
    \/ FirstUpdate
    \/ LoopEnter
    \/ LoopExit
    \/ EnumerateRaw
    \/ EnumeratePrint
    \/ Pick
    \/ LoopUpdate

SpecDriver == InitDriver /\ [][NextDriver]_vars

\* the last call on the Battle was an enumeration to which the engine
\* answered with count choices
EnumeratedWith(op, count) == last.op = op /\ last.count = count

C13_WitnessPrefix ==
    /\ EnumeratedWith("possible_choices", 1)
    /\ last.player = P2
    /\ last.value = <<5>>
    /\ proto.choice_buf[2] = 6
    /\ proto.choice_buf[3] = 10

C14_ErrorOutcomeRaises ==
    (last.op \in {"update", "update_raw"} /\ is_error(last.answer)) =>
        /\ last.raised
        /\ last.value = <<>>
        /\ last.engine = <<"pkmn_gen1_battle_update">>
        /\ proto.pc.at = "raised"
        /\ proto.calls[Len(proto.calls)].op = last.op

\* update_raw raised on an error outcome, with choices the enumerations gave
C14_Witness ==
    /\ last.op = "update_raw"
    /\ is_error(last.answer)
    /\ last.raised
    /\ last.c1 = 6
    /\ last.c2 = 5
    /\ proto.result.type = "None"

\* C15: the first call the driver makes on the Battle it constructed is
\* update with the PASS choice for both players, and every enumeration comes
\* after that update has returned.
C15_FirstUpdateIsPass ==
    LET calls == proto.calls
    IN  /\ Len(calls) >= 1 => calls[1].op = "update" /\ calls[1].pass
        /\ \A i \in 1..Len(calls) :
               calls[i].op \in {"possible_choices", "possible_choices_raw"} =>
                   i > 1 /\ ~calls[1].raised
        /\ proto.pc.at \in {"raw", "print", "pick", "update_raw"} =>
               Len(calls) >= 1 /\ ~calls[1].raised

\* the driver has made its first update and then enumerated for both players
C15_Witness ==
    /\ Len(proto.calls) >= 5
    /\ proto.calls[1] = [op |-> "update", player |-> P1, raised |-> FALSE, pass |-> TRUE]
    /\ proto.calls[2].op = "possible_choices_raw" /\ proto.calls[2].player = P1
    /\ proto.calls[4].op = "possible_choices_raw" /\ proto.calls[4].player = P2

---------------------------------------------------------------------------
(* Round trips of the transform target and of the disable data             *)

\* C21: after set_transformed_into(owner, (target_player, slot)) with slot in
\* 1..6, transformed_into(owner) returns (target_player, slot).
C21_TransformRoundTrip ==
    (last.op = "set_transformed_into" /\ last.m \in Slots) =>
        /\ ~last.raised
        /\ transformed_into(bytes, last.player) = <<last.n, last.m>>

\* C22 as stated: for every move_slot in 0..15 and turns_left in 0..15,
\* set_disable_data succeeds and disable_data returns the same pair.
C22_Original ==
    (/\ last.op = "set_disable_data"
     /\ last.n \in 0..15
     /\ last.m \in 0..15)
    => /\ ~last.raised
       /\ disable_data(bytes, last.player) = [move_slot |-> last.n, turns_left |-> last.m]

\* C22 as the code has it: the disabled-move-slot field is 3 bits wide and the
\* disable-duration field 4 bits wide.  For every move_slot in 0..7 and
\* turns_left in 0..15 set_disable_data succeeds and disable_data returns the
\* same pair; for every move_slot in 8..15 the call fails.
C22_Amended ==
    /\ (/\ last.op = "set_disable_data"
        /\ last.n \in 0..7
        /\ last.m \in 0..15)
       => /\ ~last.raised
          /\ disable_data(bytes, last.player) =
                 [move_slot |-> last.n, turns_left |-> last.m]
    /\ (/\ last.op = "set_disable_data"
        /\ last.n \in 8..15
        /\ last.m \in 0..15)
       => last.raised

\* the widest legal pair was written and read back next to a toxic counter
\* whose low bit, the bit after the move slot, is set
C22_Witness ==
    /\ last.op = "set_disable_data"
    /\ last.n = 7
    /\ last.m = 15
    /\ ~last.raised
    /\ toxic_severity(prev, last.player) % 2 = 1
    /\ disable_data(bytes, last.player) = [move_slot |-> 7, turns_left |-> 15]
    /\ disable_data(bytes, last.player) /= disable_data(prev, last.player)

---------------------------------------------------------------------------
(* The move indexes and the seed of a constructed Battle                   *)

\* C23: on a freshly constructed Battle, with either build of libpkmn,
\* last_used_move_index(player) returns the p1_move_idx / p2_move_idx given to
\* the constructor for that player, whatever was given for the other player.
C23_MoveIndexReadBack ==
    Constructed =>
        /\ last_used_move_index(bytes, P1) = args.p1_move_idx
        /\ last_used_move_index(bytes, P2) = args.p2_move_idx

\* the Battle that the same arguments give when the seeding loop of the build
\* without Showdown compatibility makes no iteration
Unseeded ==
    Battle_init(teams[1], teams[2], [args EXCEPT !.rng_seed = Seed("list", <<>>)]).b

\* the ten bytes after the byte of the packed move indexes
SeedRegion == {LAYOUT_OFFSETS.Battle.last_selected_indexes + 1 + i : i \in 0..9}

\* C24: constructing against a build without Showdown compatibility, with the
\* seed omitted or with a seed list, writes the seed into exactly the ten bytes
\* after the byte of the packed move indexes and writes nowhere else while
\* seeding.
C24_CompactSeedTenBytes ==
    (Constructed /\ args.libpkmn = 0) =>
        LET seed == IF args.rng_seed.kind = "None" THEN args.rng_seed.random
                    ELSE args.rng_seed.value
        IN  /\ SeedOffsets(args) = SeedRegion
            /\ \A i \in SeedRegion :
                   bytes[i] = seed[i - LAYOUT_OFFSETS.Battle.last_selected_indexes]
            /\ \A before \in {Unseeded} :
                   \A i \in (DOMAIN bytes) \ SeedRegion : bytes[i] = before[i]

---------------------------------------------------------------------------
(* The turn loop of the driver                                             *)

\* the elements of a sequence
Range(seq) == {seq[i] : i \in 1..Len(seq)}

\* the calls of op among the calls made on the Battle
CallsOf(op) == {i \in 1..Len(proto.calls) : proto.calls[i].op = op}

\* C25: in the driver's loop update_raw is never called in a turn in which an
\* enumeration returned zero choices for a player: the zero count ends the
\* turn with Softlock before update_raw is reached.
C25_NoUpdateAfterZeroCount ==
    /\ EnumeratedWith("possible_choices_raw", 0) =>
           ~last.raised /\ proto.pc = At("print", last.player)
    /\ EnumeratedWith("possible_choices", 0) =>
           last.raised /\ last.exc = "Softlock" /\ proto.pc = At("raised", last.player)
    /\ proto.pc.at \in {"pick", "update_raw"} \/ proto.pc = At("raw", P2) \/
       proto.pc = At("print", P2) =>
           Len(proto.legal[P1 + 1]) > 0
    /\ proto.pc = At("pick", P2) \/ proto.pc.at = "update_raw" =>
           Len(proto.legal[P2 + 1]) > 0
    /\ last.op = "update_raw" =>
           Len(last.enumerated[P1 + 1]) > 0 /\ Len(last.enumerated[P2 + 1]) > 0

\* the enumeration for P2 returned no choice after the one for P1 had
\* returned three: the turn has ended with Softlock and update_raw was never
\* called
C25_Witness ==
    /\ EnumeratedWith("possible_choices", 0)
    /\ last.player = P2
    /\ last.exc = "Softlock"
    /\ Len(proto.legal[P1 + 1]) = 3
    /\ proto.pc = At("raised", P2)
    /\ CallsOf("update_raw") = {}
    /\ Len(proto.calls) = 5

\* C26: every iteration of the driver's loop makes exactly one update call,
\* which carries the choices of both players; the value given for P1 is one of
\* the choices the engine enumerated for P1 against the latest outcome and the
\* value given for P2 is one of those enumerated for P2, although both lists
\* are slices of the one choice buffer that each later enumeration overwrites.
C26_ChoicesFromOwnList ==
    /\ last.op = "update_raw" =>
           /\ last.c1 \in Range(last.enumerated[P1 + 1])
           /\ last.c2 \in Range(last.enumerated[P2 + 1])
    /\ proto.pc.at = "update_raw" =>
           /\ proto.p_choice[P1 + 1] \in Range(proto.legal[P1 + 1])
           /\ proto.p_choice[P2 + 1] \in Range(proto.legal[P2 + 1])
    /\ Cardinality(CallsOf("update_raw")) =
           IF \/ proto.pc.at \in {"while", "done"}
              \/ proto.pc.at = "raised" /\ last.op = "update_raw"
           THEN steps
           ELSE IF steps = 0 THEN 0 ELSE steps - 1

\* update_raw was called with a choice of P1 that the enumeration for P2 had
\* by then overwritten in the choice buffer
C26_Witness ==
    /\ last.op = "update_raw"
    /\ ~last.raised
    /\ last.enumerated = <<(<<1, 6, 10>>), (<<5>>)>>
    /\ last.c1 = 1
    /\ last.c2 = 5
    /\ last.choice_buf[1] = 5

---------------------------------------------------------------------------
(* The partial stat setters                                                *)

\* every subset of the stats
StatKeyInputs == SUBSET Range(StatNames)

\* new stats: the ends of the u16 range, and values whose two bytes differ
StatValueInputs == [hp |-> 258, atk |-> 65535, def |-> 0, spe |-> 513, spc |-> 999]

\* the first and the last roster slot
StatSlotInputs == {1, 6}

SetStats ==
    \E player \in Players, pokemon \in StatSlotInputs, keys \in StatKeyInputs :
        Call(set_stats(bytes, player, pokemon, [k \in keys |-> StatValueInputs[k]]),
             [OnSlot("set_stats", player, pokemon, 0) EXCEPT
                 !.keys = keys, !.vals = StatValueInputs])

SetActivePokemonStats ==
    \E player \in Players, keys \in StatKeyInputs :
        Call(set_active_pokemon_stats(bytes, player, [k \in keys |-> StatValueInputs[k]]),
             [On("set_active_pokemon_stats", player, 0) EXCEPT
                 !.keys = keys, !.vals = StatValueInputs])

NextStats ==
    \/ SetStats
    \/ SetActivePokemonStats

SpecStats == InitSetters /\ [][NextStats]_vars

\* the offset of the stats that the last call was addressed to, and what the
\* matching getter returns on b
StatsOffsetOf(c) ==
    LAYOUT_OFFSETS.Battle.sides + (LAYOUT_SIZES.Side * c.player)
    + (IF c.op = "set_stats"
       THEN LAYOUT_OFFSETS.Side.pokemon + (LAYOUT_SIZES.Pokemon * (c.pokemon - 1))
            + LAYOUT_OFFSETS.Pokemon.stats
       ELSE LAYOUT_OFFSETS.Side.active + LAYOUT_OFFSETS.ActivePokemon.stats)

StatsGot(b, c) ==
    IF c.op = "set_stats" THEN stats(b, c.player, c.pokemon)
    ELSE active_pokemon_stats(b, c.player)

\* C29: set_stats and set_active_pokemon_stats with any subset of the stats
\* write exactly the named stats, each as a little-endian u16 at its own
\* offset: the matching getter returns the new value of each named stat and the
\* previous value of each other stat, and set_stats leaves the current HP of
\* the Pokemon as it was.
C29_PartialStats ==
    last.op \in {"set_stats", "set_active_pokemon_stats"} =>
        /\ ~last.raised
        /\ \A k \in 1..Len(StatNames) :
               IF StatNames[k] \in last.keys
               THEN /\ StatsGot(bytes, last)[StatNames[k]] = last.vals[StatNames[k]]
                    /\ IsU16LE(bytes, StatsOffsetOf(last) + 2 * (k - 1),
                               last.vals[StatNames[k]])
               ELSE /\ StatsGot(bytes, last)[StatNames[k]] = StatsGot(prev, last)[StatNames[k]]
                    /\ \A i \in 0..1 :
                           bytes[StatsOffsetOf(last) + 2 * (k - 1) + i]
                               = prev[StatsOffsetOf(last) + 2 * (k - 1) + i]
        /\ last.op = "set_stats" =>
               /\ current_hp(bytes, last.player, last.pokemon)
                      = current_hp(prev, last.player, last.pokemon)
               /\ \A i \in 0..1 :
                      bytes[PokemonOffset(last.player, last.pokemon)
                            + LAYOUT_OFFSETS.Pokemon.hp + i]
                          = prev[PokemonOffset(last.player, last.pokemon)
                                 + LAYOUT_OFFSETS.Pokemon.hp + i]

\* set_stats has rewritten the hp and the spe stat of a Pokemon whose current
\* HP is 513 and whose other stats are not zero
C29_Witness ==
    /\ last.op = "set_stats"
    /\ last.keys = {"hp", "spe"}
    /\ last.player = P1
    /\ last.pokemon = 1
    /\ current_hp(bytes, P1, 1) = 513
    /\ stats(bytes, P1, 1).hp = 258
    /\ stats(prev, P1, 1).hp \notin {258, 513}
    /\ stats(bytes, P1, 1).spe = 513
    /\ stats(prev, P1, 1).spe /= 513
    /\ stats(bytes, P1, 1).atk = stats(prev, P1, 1).atk
    /\ stats(bytes, P1, 1).atk > 0

---------------------------------------------------------------------------
(* The frame of the setters                                                *)

\* the roster slots the setters are called on: the first and the last
FrameSlots == {1, 6}

\* calls of every setter: on the active Pokemon, on roster slots, on a side
\* and on the Battle; with values that set and that clear bits, and with
\* values the setter rejects
FrameCalls ==
    UNION {
        {[On("set_boosts", player, 0) EXCEPT !.keys = keys,
                                             !.vals = [k \in BoostNames |-> -3]] :
            keys \in {{"atk"}, {"spc", "evasion"}}}
        \cup {[On("set_volatile", player, flag) EXCEPT !.on = on] :
                 flag \in {VolatileFlag.Bide, VolatileFlag.Confusion, VolatileFlag.Mist,
                           VolatileFlag.Transform},
                 on \in BOOLEAN}
        \cup {On("set_confusion_turns_left", player, n) : n \in {0, 7, 8}}
        \cup {On("set_attacks_left", player, n) : n \in {1, 6}}
        \cup {On("set_volatile_state", player, n) : n \in {0, 65535}}
        \cup {On("set_substitute_hp", player, n) : n \in {0, 255}}
        \cup {[On("set_transformed_into", player, target) EXCEPT !.m = slot] :
                 target \in Players, slot \in {1, 6}}
        \cup {[On("set_disable_data", player, move[1]) EXCEPT !.m = move[2]] :
                 move \in {<<0, 0>>, <<7, 15>>, <<8, 9>>}}
        \cup {On("set_toxic_severity", player, n) : n \in {0, 31, 32}}
        \cup {[On("set_active_pokemon_stats", player, 0) EXCEPT
                  !.keys = keys, !.vals = StatValueInputs] :
                 keys \in {{"hp"}, {"atk", "spc"}, Range(StatNames)}}
        \cup {[On("set_active_pokemon_species", player, 0) EXCEPT !.names = <<name>>] :
                 name \in {"Mew", "None", "Missingno"}}
        \cup {[On("set_active_pokemon_types", player, 0) EXCEPT !.names = names] :
                 names \in {<<"Fire", "Ghost">>, <<"Dragon">>}}
        \cup {[On(op, player, 0) EXCEPT !.names = <<"Explosion">>] :
                 op \in {"set_last_selected_move", "set_last_used_move"}}
        \cup {[OnSlot("set_moves", player, pokemon, 0) EXCEPT
                  !.moves = <<<<"Explosion", 8>>, <<"None", 0>>, <<"Growl", 64>>,
                              <<"Tackle", 1>>>>] :
                 pokemon \in {Active} \cup FrameSlots}
        \cup {OnSlot(op, player, pokemon, 255) :
                 op \in {"set_current_hp", "set_status", "set_level"},
                 pokemon \in FrameSlots}
        \cup {[OnSlot("set_stats", player, pokemon, 0) EXCEPT
                  !.keys = keys, !.vals = StatValueInputs] :
                 pokemon \in FrameSlots, keys \in {{"spc"}, Range(StatNames)}}
        \cup {[OnSlot("set_species", player, pokemon, 0) EXCEPT !.names = <<"Mew">>] :
                 pokemon \in FrameSlots}
        \cup {[OnSlot("set_types", player, pokemon, 0) EXCEPT !.names = names] :
                 pokemon \in FrameSlots, names \in {<<"Dragon", "Ice">>, <<"Dragon">>}}
        : player \in Players}
    \cup {On(op, P1, n) : op \in {"set_turn", "set_last_damage"}, n \in {0, 65535}}

\* a setter is called
FrameCall == \E c \in FrameCalls : Call(Apply(bytes, c), c)

NextFrame == FrameCall

SpecFrame == InitSetters /\ [][NextFrame]_vars

\* the bytes from offset on, n of them
Span(offset, n) == offset..(offset + n - 1)

\* the regions of the layout: the active Pokemon and a roster slot of a player
ActiveRegion(player) ==
    Span(SideOffset(player) + LAYOUT_OFFSETS.Side.active, LAYOUT_SIZES.ActivePokemon)

RosterRegion(player, pokemon) ==
    Span(SideOffset(player) + LAYOUT_OFFSETS.Side.pokemon
         + (LAYOUT_SIZES.Pokemon * (pokemon - 1)), LAYOUT_SIZES.Pokemon)

\* the bytes of the stats named by keys, the stats starting at offset
StatSpans(offset, keys) ==
    UNION {Span(offset + 2 * (k - 1), 2) :
              k \in {n \in 1..Len(StatNames) : StatNames[n] \in keys}}

\* the byte of the volatiles of a player that holds the bit at bit_offset
VolatileByte(player, bit_offset) ==
    SideOffset(player) + LAYOUT_OFFSETS.Side.active
    + LAYOUT_OFFSETS.ActivePokemon.volatiles + (bit_offset \div 8)

\* the setters by what they are addressed to
ActiveSetters ==
    {"set_boosts", "set_volatile", "set_confusion_turns_left", "set_attacks_left",
     "set_volatile_state", "set_substitute_hp", "set_transformed_into",
     "set_disable_data", "set_toxic_severity", "set_active_pokemon_stats",
     "set_active_pokemon_species", "set_active_pokemon_types"}

RosterSetters ==
    {"set_current_hp", "set_status", "set_level", "set_stats", "set_species", "set_types"}

ToActive(c) == c.op \in ActiveSetters \/ (c.op = "set_moves" /\ c.pokemon = Active)
ToRoster(c) == c.op \in RosterSetters \/ (c.op = "set_moves" /\ c.pokemon /= Active)

\* the bytes of the field that the call c is addressed to, from the layout
FieldBytes(c) ==
    LET side == SideOffset(c.player)
        active == side + LAYOUT_OFFSETS.Side.active
        roster == side + LAYOUT_OFFSETS.Side.pokemon
                  + (LAYOUT_SIZES.Pokemon * (c.pokemon - 1))
        v == LAYOUT_OFFSETS.Volatiles
    IN  CASE c.op = "set_boosts" -> Span(active + LAYOUT_OFFSETS.ActivePokemon.boosts, 3)
          [] c.op = "set_volatile" -> {VolatileByte(c.player, c.n)}
          [] c.op = "set_confusion_turns_left" -> {VolatileByte(c.player, v.confusion)}
          [] c.op = "set_attacks_left" -> {VolatileByte(c.player, v.attacks)}
          [] c.op = "set_volatile_state" -> Span(VolatileByte(c.player, v.state), 2)
          [] c.op = "set_substitute_hp" -> {VolatileByte(c.player, v.substitute)}
          [] c.op = "set_transformed_into" -> {VolatileByte(c.player, v.transform)}
          [] c.op = "set_disable_data" ->
                 {VolatileByte(c.player, v.disabled_duration),
                  VolatileByte(c.player, v.disabled_move)}
          [] c.op = "set_toxic_severity" -> {VolatileByte(c.player, v.toxic)}
          [] c.op = "set_active_pokemon_stats" ->
                 StatSpans(active + LAYOUT_OFFSETS.ActivePokemon.stats, c.keys)
          [] c.op = "set_active_pokemon_species" ->
                 {active + LAYOUT_OFFSETS.ActivePokemon.species}
          [] c.op = "set_active_pokemon_types" ->
                 {active + LAYOUT_OFFSETS.ActivePokemon.types}
          [] c.op = "set_last_selected_move" -> {side + LAYOUT_OFFSETS.Side.last_selected_move}
          [] c.op = "set_last_used_move" -> {side + LAYOUT_OFFSETS.Side.last_used_move}
          [] c.op = "set_moves" ->
                 IF c.pokemon = Active
                 THEN Span(active + LAYOUT_OFFSETS.ActivePokemon.moves, 8)
                 ELSE Span(roster + LAYOUT_OFFSETS.Pokemon.moves, 8)
          [] c.op = "set_current_hp" -> Span(roster + LAYOUT_OFFSETS.Pokemon.hp, 2)
          [] c.op = "set_status" -> {roster + LAYOUT_OFFSETS.Pokemon.status}
          [] c.op = "set_level" -> {roster + LAYOUT_OFFSETS.Pokemon.level}
          [] c.op = "set_stats" -> StatSpans(roster + LAYOUT_OFFSETS.Pokemon.stats, c.keys)
          [] c.op = "set_species" -> {roster + LAYOUT_OFFSETS.Pokemon.species}
          [] c.op = "set_types" -> {roster + LAYOUT_OFFSETS.Pokemon.types}
          [] c.op = "set_turn" -> Span(LAYOUT_OFFSETS.Battle.turn, 2)
          [] c.op = "set_last_damage" -> Span(LAYOUT_OFFSETS.Battle.last_damage, 2)

\* C28: after any sequence of setter calls, a setter changes only bytes of the
\* field it is addressed to: every byte of the other player's side, of every
\* other roster slot, of every other field of the same Pokemon and of the
\* fields of the Battle is as before.  No setter of the active Pokemon changes
\* a byte of a roster Pokemon, and no roster setter changes a byte of the
\* active region.
C28_SetterFrame ==
    last.op /= "init" =>
        /\ \A i \in (DOMAIN bytes) \ FieldBytes(last) : bytes[i] = prev[i]
        /\ ToActive(last) =>
               /\ FieldBytes(last) \subseteq ActiveRegion(last.player)
               /\ \A player \in Players, pokemon \in Slots :
                      SlotBytes(bytes, player, pokemon) = SlotBytes(prev, player, pokemon)
        /\ ToRoster(last) =>
               /\ FieldBytes(last) \subseteq RosterRegion(last.player, last.pokemon)
               /\ \A player \in Players :
                      \A i \in ActiveRegion(player) : bytes[i] = prev[i]

\* a setter of the last roster slot, the slot next to the active region, has
\* changed bytes of its field on a Battle that a run of earlier setter calls
\* had written
C28_Witness ==
    /\ last.op = "set_stats"
    /\ last.pokemon = 6
    /\ last.keys = {"spc"}
    /\ ~last.raised
    /\ bytes /= prev
    /\ prev = Busy
    /\ \E i \in ActiveRegion(last.player) : bytes[i] /= 0

---------------------------------------------------------------------------
(* The trace buffer                                                        *)

\* values of lib.PKMN_GEN1_LOGS_SIZE
LogsSizeInputs == {64, 180}

\* the bindings of libpkmn a Battle can be constructed with: with and without
\* trace support, with and without Showdown compatibility
Bindings ==
    [HAS_TRACE : BOOLEAN, IS_SHOWDOWN_COMPATIBLE : {0, 1},
     PKMN_GEN1_LOGS_SIZE : LogsSizeInputs]

\* Battle.trace_buf as __init__ leaves it: an array of PKMN_GEN1_LOGS_SIZE
\* bytes, or ffi.NULL
trace_buf(lib) ==
    IF lib.HAS_TRACE
    THEN [null |-> FALSE, size |-> lib.PKMN_GEN1_LOGS_SIZE]
    ELSE [null |-> TRUE, size |-> 0]

\* the arguments update_raw gives to lib.pkmn_gen1_battle_update after the
\* battle: the two choices, the trace buffer and its length
pkmn_gen1_battle_update_args(lib, buf, p1_choice, p2_choice) ==
    [c1 |-> p1_choice, c2 |-> p2_choice, buf |-> buf, len |-> lib.PKMN_GEN1_LOGS_SIZE]

\* a Battle constructed with a binding and a seed the binding accepts
InitTrace ==
    /\ \E lib \in Bindings :
           /\ args = [DefaultArgs EXCEPT
                         !.libpkmn = lib.IS_SHOWDOWN_COMPATIBLE,
                         !.rng_seed = IF lib.IS_SHOWDOWN_COMPATIBLE = 1
                                      THEN DefaultArgs.rng_seed ELSE TenSeed]
           /\ proto = [pc |-> "none", lib |-> lib, trace_buf |-> trace_buf(lib)]
    /\ bytes = Battle_init(Team1, Team2, args).b
    /\ prev = bytes
    /\ last = NoCall
    /\ steps = 0
    /\ teams = <<Team1, Team2>>
    /\ sc = NoStatcalc

\* the choices given to update_raw
TraceChoiceInputs == {Choice_PASS, 5}

\* battle.update_raw(p1_choice, p2_choice)
UpdateRaw ==
    /\ steps < MaxSteps
    /\ \E answer \in EngineAnswers, p1_choice \in TraceChoiceInputs,
          p2_choice \in TraceChoiceInputs :
           /\ answer.legal = <<(<<5>>), (<<5>>)>>
           /\ \E r \in {update_raw(answer, p1_choice, p2_choice)} :
                  last' = [op |-> "update_raw", answer |-> answer.result,
                           passed |-> pkmn_gen1_battle_update_args(
                                          proto.lib, proto.trace_buf, p1_choice, p2_choice),
                           raised |-> r.raised, exc |-> r.exc, value |-> r.value]
           /\ bytes' = EngineBuffer(bytes, answer)
    /\ prev' = bytes
    /\ steps' = steps + 1
    /\ UNCHANGED <<teams, sc, args, proto>>

NextTrace == UpdateRaw

SpecTrace == InitTrace /\ [][NextTrace]_vars

\* C30: in every update call, with a build that has trace support and with
\* one that has none, the trace capacity given to the engine is at most the
\* number of bytes of the trace buffer the Battle allocated: the full log size
\* when a buffer was allocated, none when the buffer is null.
C30_TraceCapacityWithinBuffer ==
    last.op = "update_raw" => last.passed.len <= last.passed.buf.size

=============================================================================
